---- MODULE Spec2Model ----
(***************************************************************************)
(* A model of the calculator engine of app/: the Calculator facade with    *)
(* its live history, undo and redo stacks of CalculatorMemento, observer   *)
(* list and persisted history file; the Operation strategies; and the      *)
(* Calculation record.                                                     *)
(*                                                                         *)
(* Objects.  Calculation objects have identity: `heap' maps an object id   *)
(* to the fields of the Calculation, and the history and every memento     *)
(* hold sequences of ids.  list.copy() copies the list, not its elements,  *)
(* so a copy is the same sequence of ids.  Every hand-over of a history    *)
(* list in calculator.py goes through .copy() (lines 150, 281, 282, 294,   *)
(* 295), so no two holders ever share a list object and lists are values.  *)
(* A state keeps the objects something refers to, numbered in the order    *)
(* in which the history and the two stacks first refer to them.            *)
(*                                                                         *)
(* Timestamps (Calculation.timestamp, CalculatorMemento.timestamp) are     *)
(* written by datetime.now and read by no operation of the Calculator      *)
(* other than to copy them to the history file; they are left out.         *)
(***************************************************************************)
EXTENDS Integers, Sequences, FiniteSets, TLC

VARIABLES
    config,              \* self.config: max_history_size, auto_save, max_input_value
    heap,                \* the Calculation objects in use, by object id
    history,             \* self.history: sequence of object ids, most recent last
    undo_stack,          \* self.undo_stack: sequence of mementos
    redo_stack,          \* self.redo_stack: sequence of mementos
    operation_strategy,  \* self.operation_strategy: a strategy name or NoStrategy
    observers,           \* self.observers: sequence of observer kinds
    history_file,        \* the CSV file at config.history_file
    operations,          \* OperationFactory._operations: names and classes, in dict order
    last                 \* the call that produced this state, how it ended, what it returned

vars == <<config, heap, history, undo_stack, redo_stack, operation_strategy,
          observers, history_file, operations, last>>

----------------------------------------------------------------------------
(* Bounds of the model *)

\* most mementos the two stacks hold together before perform_operation is cut off
MaxStack == 1
\* config.max_input_value of the configurations explored
MaxInputValue == 1

----------------------------------------------------------------------------
(* decimal.Decimal: sign s (0 plus, 1 minus), coefficient c >= 0, exponent *)
(* e; the value is (-1)^s * c * 10^e.  Decimal has a negative zero.  The   *)
(* arithmetic below is the library's on operands with e >= 0 (integers),   *)
(* which is what validate_number yields for integer input.                 *)

Dec(s, c, e) == [s |-> s, c |-> c, e |-> e]

Abs(n) == IF n < 0 THEN -n ELSE n

Min(a, b) == IF a <= b THEN a ELSE b

RECURSIVE Pow10(_)
Pow10(k) == IF k <= 0 THEN 1 ELSE 10 * Pow10(k - 1)

\* Decimal(n) for a Python int n
DecInt(n) == Dec(IF n < 0 THEN 1 ELSE 0, Abs(n), 0)

\* the integer an integral Decimal stands for
IntVal(d) == (IF d.s = 1 THEN -1 ELSE 1) * d.c * Pow10(d.e)

IsZero(d) == d.c = 0

IsNegative(d) == d.s = 1 /\ d.c # 0

Xor(s, t) == IF s = t THEN 0 ELSE 1

RECURSIVE StripZeros(_, _, _)
StripZeros(s, c, e) ==
    IF c # 0 /\ c % 10 = 0 THEN StripZeros(s, c \div 10, e + 1) ELSE Dec(s, c, e)

\* Decimal.normalize(): trailing zeros of the coefficient move to the exponent;
\* a zero becomes 0 or -0 with exponent 0
normalize(d) == IF d.c = 0 THEN Dec(d.s, 0, 0) ELSE StripZeros(d.s, d.c, d.e)

\* A variant of __abs__ that keeps the sign.
DecAbsKeepingSign(d) == d

\* Decimal.__abs__
DecAbs(d) == Dec(0, d.c, d.e)

\* Decimal.copy_negate
DecNegate(d) == Dec(Xor(d.s, 1), d.c, d.e)

\* Decimal.__add__: exact; the exponent is the smaller one; a zero sum is -0
\* only when both operands are negative
DecAdd(x, y) ==
    LET v == IntVal(x) + IntVal(y)
        e == Min(x.e, y.e)
    IN  IF v = 0
        THEN Dec(IF x.s = 1 /\ y.s = 1 THEN 1 ELSE 0, 0, e)
        ELSE Dec(IF v < 0 THEN 1 ELSE 0, Abs(v) \div Pow10(e), e)

\* Decimal.__sub__: x + (-y)
DecSub(x, y) == DecAdd(x, DecNegate(y))

\* Decimal.__mul__
DecMul(x, y) == Dec(Xor(x.s, y.s), x.c * y.c, x.e + y.e)

\* the exact quotient n / d as coefficient and exponent, shifting the dividend
\* until the division leaves no remainder (d has no prime factor but 2 and 5)
RECURSIVE ExactQuotient(_, _, _)
ExactQuotient(n, d, e) ==
    IF n % d = 0 THEN [c |-> n \div d, e |-> e] ELSE ExactQuotient(n * 10, d, e - 1)

\* trailing zeros of an exact quotient are dropped up to the ideal exponent
RECURSIVE TowardsIdeal(_, _, _)
TowardsIdeal(c, e, ideal) ==
    IF e < ideal /\ c # 0 /\ c % 10 = 0
    THEN TowardsIdeal(c \div 10, e + 1, ideal)
    ELSE [c |-> c, e |-> e]

\* Decimal.__truediv__ for y # 0 and an exact quotient
DecDiv(x, y) ==
    LET ideal == x.e - y.e
        s == Xor(x.s, y.s)
    IN  IF x.c = 0
        THEN Dec(s, 0, ideal)
        ELSE LET q == ExactQuotient(x.c, y.c, ideal)
                 r == TowardsIdeal(q.c, q.e, ideal)
             IN  Dec(s, r.c, r.e)

\* Decimal.__mod__ for y # 0: the remainder of the truncated division, with the
\* sign of the dividend
DecMod(x, y) ==
    LET e == Min(x.e, y.e)
        r == Abs(IntVal(x)) % Abs(IntVal(y))
    IN  Dec(x.s, r \div Pow10(e), e)

\* Decimal.__floordiv__ for y # 0: the integer part of the quotient, truncated
\* towards zero
DecFloorDiv(x, y) ==
    Dec(Xor(x.s, y.s), Abs(IntVal(x)) \div Abs(IntVal(y)), 0)

\* Decimal comparisons with 0 and by magnitude
DecGreaterAbs(x, bound) == Abs(IntVal(x)) > bound

----------------------------------------------------------------------------
(* app/operations.py: the strategies, named by their class names *)

Strategies ==
    {"Addition", "Subtraction", "Multiplication", "Division", "Power", "Root",
     "Modulus", "IntDivide", "Percent", "AbsoluteDifference"}

NoStrategy == "None"

\* Operation.__str__: the class name
OperationStr(op) == op

Ok(v) == [err |-> "none", msg |-> "", val |-> v]

Raise(kind, msg) == [err |-> kind, msg |-> msg, val |-> Dec(0, 0, 0)]

\* validate_operands of each strategy: the name of the error raised, or "" when
\* the operands pass
validate_operands(op, a, b) ==
    CASE op = "Division" /\ IsZero(b) -> "Division by zero is not allowed"
      [] op = "Power" /\ IsNegative(b) -> "Negative exponents not supported"
      [] op = "Root" /\ IsNegative(a) -> "Cannot calculate root of negative number"
      [] op = "Root" /\ IsZero(b) -> "Zero root is undefined"
      [] op = "Modulus" /\ IsZero(b) -> "Modulus by zero is not allowed"
      [] op = "IntDivide" /\ IsZero(b) -> "Divide by zero is not allowed"
      [] op = "Percent" /\ IsZero(b) -> "Divide by zero is not allowed"
      [] OTHER -> ""

\* pow(float(a), float(b)) re-encoded by Decimal(), for integral a and b >= 0 with
\* an integral power (the float result is then exact)
RECURSIVE IntPow(_, _)
IntPow(a, b) == IF b = 0 THEN 1 ELSE a * IntPow(a, b - 1)

FloatPow(a, b) == DecInt(IntPow(IntVal(a), IntVal(b)))

\* the integral bases a >= 0 and degrees b # 0 for which the float
\* pow(float(a), 1 / float(b)) has a short exact decimal expansion, or is refused
FloatRootExact(a, b) ==
    \/ IntVal(a) \in {0, 1}
    \/ IntVal(b) = 1
    \/ IntVal(b) = -1 /\ IntVal(a) = 2

\* pow(float(a), 1 / float(b)) re-encoded by Decimal(), for a >= 0, b # 0 and
\* FloatRootExact(a, b); 0.0 to a negative power raises ZeroDivisionError
FloatRoot(a, b) ==
    CASE IsZero(a) /\ IsNegative(b) ->
            Raise("ZeroDivisionError", "0.0 cannot be raised to a negative power")
      [] IsZero(a) /\ ~IsNegative(b) -> Ok(DecInt(0))
      [] IntVal(a) = 1 -> Ok(DecInt(1))
      [] IntVal(a) > 1 /\ IntVal(b) = 1 -> Ok(DecInt(IntVal(a)))
      [] IntVal(a) = 2 /\ IntVal(b) = -1 -> Ok(Dec(0, 5, -1))

\* the arithmetic of execute, after validate_operands has passed
Compute(op, a, b) ==
    CASE op = "Addition" -> Ok(DecAdd(a, b))
      [] op = "Subtraction" -> Ok(DecSub(a, b))
      [] op = "Multiplication" -> Ok(DecMul(a, b))
      [] op = "Division" -> Ok(DecDiv(a, b))
      [] op = "Power" -> Ok(FloatPow(a, b))
      [] op = "Root" -> FloatRoot(a, b)
      [] op = "Modulus" -> Ok(DecMod(a, b))
      [] op = "IntDivide" -> Ok(DecFloorDiv(a, b))
      [] op = "Percent" -> Ok(DecMul(DecDiv(a, b), DecInt(100)))
      [] op = "AbsoluteDifference" -> Ok(DecAbs(DecSub(a, b)))

\* A variant of execute in which Modulus answers a zero divisor with the dividend.
ExecuteModulusByZero(op, a, b) ==
    LET msg == validate_operands(op, a, b)
    IN  IF op = "Modulus" /\ IsZero(b) THEN Ok(a)
        ELSE IF msg # "" THEN Raise("ValidationError", msg)
        ELSE Compute(op, a, b)

\* Operation.execute of each strategy: validate_operands, then the arithmetic
execute(op, a, b) ==
    LET msg == validate_operands(op, a, b)
    IN  IF msg # "" THEN Raise("ValidationError", msg) ELSE Compute(op, a, b)

\* OperationFactory._operations as the class is loaded: the built-in names and
\* their classes, in the order of the dict literal
BuiltinOperations ==
    << [name |-> "add", cls |-> "Addition"],
       [name |-> "subtract", cls |-> "Subtraction"],
       [name |-> "multiply", cls |-> "Multiplication"],
       [name |-> "divide", cls |-> "Division"],
       [name |-> "power", cls |-> "Power"],
       [name |-> "root", cls |-> "Root"],
       [name |-> "modulus", cls |-> "Modulus"],
       [name |-> "int_divide", cls |-> "IntDivide"],
       [name |-> "percent", cls |-> "Percent"],
       [name |-> "abs_diff", cls |-> "AbsoluteDifference"] >>

\* str.lower() on the operation names the factory is called with
lower(name) ==
    CASE name = "ADD" -> "add"
      [] name = "Cube" -> "cube"
      [] name = "CUBE" -> "cube"
      [] name = "Cancel" -> "cancel"
      [] name = "CANCEL" -> "cancel"
      [] OTHER -> name

\* classes that inherit from Operation besides the built-in ones, and a class
\* that does not
CustomOperations == {"Cube", "Square"}

IsOperationClass(cls) == cls \in Strategies \cup CustomOperations

\* dict.keys() and dict.get(key) on the registry; NoClass stands for None
RECURSIVE Keys(_)
Keys(ops) ==
    IF ops = <<>> THEN <<>> ELSE <<ops[1].name>> \o Keys(Tail(ops))

NoClass == "None"

RECURSIVE Get(_, _)
Get(ops, key) ==
    IF ops = <<>> THEN NoClass
    ELSE IF ops[1].name = key THEN ops[1].cls
    ELSE Get(Tail(ops), key)

\* ops[key] = cls on a dict: an existing key keeps its place, a new key goes
\* to the end
RECURSIVE SetItem(_, _, _)
SetItem(ops, key, cls) ==
    IF ops = <<>> THEN << [name |-> key, cls |-> cls] >>
    ELSE IF ops[1].name = key
    THEN << [name |-> key, cls |-> cls] >> \o Tail(ops)
    ELSE << ops[1] >> \o SetItem(Tail(ops), key, cls)

\* dict without the key
RECURSIVE Without(_, _)
Without(ops, key) ==
    IF ops = <<>> THEN <<>>
    ELSE IF ops[1].name = key THEN Without(Tail(ops), key)
    ELSE << ops[1] >> \o Without(Tail(ops), key)

\* A variant of the registration that stores the name as it was given.
RegisteredCaseSensitive(ops, name, cls) == SetItem(ops, name, cls)

\* A variant of the registration that moves a name registered again to the end.
RegisteredMovingToEnd(ops, name, cls) ==
    Append(Without(ops, lower(name)), [name |-> lower(name), cls |-> cls])

\* line 212: cls._operations[name.lower()] = operation_class
Registered(ops, name, cls) == SetItem(ops, lower(name), cls)

----------------------------------------------------------------------------
(* app/calculation.py: the Calculation record *)

\* A variant of _raise_invalid_root that looks at the sign of the base first.
RaiseInvalidRootNegativeFirst(x, y) ==
    IF IsNegative(x)
    THEN Raise("OperationError", "Cannot calculate root of negative number")
    ELSE IF IsZero(y) THEN Raise("OperationError", "Zero root is undefined")
    ELSE Raise("OperationError", "Invalid root operation")

\* Calculation._raise_invalid_root(x, y)
raise_invalid_root(x, y) ==
    IF IsZero(y) THEN Raise("OperationError", "Zero root is undefined")
    ELSE IF IsNegative(x)
    THEN Raise("OperationError", "Cannot calculate root of negative number")
    ELSE Raise("OperationError", "Invalid root operation")

\* the rule table of Calculation.calculate, keyed by its own operation names
CalculationRule(name, x, y) ==
    CASE name = "Addition" -> Ok(DecAdd(x, y))
      [] name = "Subtraction" -> Ok(DecSub(x, y))
      [] name = "Multiplication" -> Ok(DecMul(x, y))
      [] name = "Division" ->
            IF ~IsZero(y) THEN Ok(DecDiv(x, y))
            ELSE Raise("OperationError", "Division by zero is not allowed")
      [] name = "Power" ->
            IF ~IsNegative(y) THEN Ok(FloatPow(x, y))
            ELSE Raise("OperationError", "Negative exponents are not supported")
      [] name = "Root" ->
            IF ~IsNegative(x) /\ ~IsZero(y)
            THEN LET r == FloatRoot(x, y)
                 IN  IF r.err = "none" THEN r
                     ELSE Raise("OperationError", "Calculation failed")
            ELSE raise_invalid_root(x, y)
      [] name = "Modulus" ->
            IF ~IsZero(y) THEN Ok(DecMod(x, y))
            ELSE Raise("OperationError", "Division by zero is not allowed")
      [] name = "IntegerDivison" ->
            IF ~IsZero(y) THEN Ok(DecFloorDiv(x, y))
            ELSE Raise("OperationError", "Division by zero is not allowed")
      [] name = "Percent" ->
            IF ~IsZero(y) THEN Ok(DecMul(DecDiv(x, y), DecInt(100)))
            ELSE Raise("OperationError", "Division by zero is not allowed")
      [] name = "AbsoluteDifference" -> Ok(DecAbs(DecSub(x, y)))

CalculationNames ==
    {"Addition", "Subtraction", "Multiplication", "Division", "Power", "Root",
     "Modulus", "IntegerDivison", "Percent", "AbsoluteDifference"}

\* Calculation.calculate: unknown names are refused, the rest go to the table
calculate(name, x, y) ==
    IF name \notin CalculationNames
    THEN Raise("OperationError", "Unknown operation")
    ELSE CalculationRule(name, x, y)

\* A variant of the constructor that takes the two operands in the other order.
CalculationSwappingOperands(name, x, y) ==
    LET r == calculate(name, y, x)
    IN  [err |-> r.err, msg |-> r.msg,
         obj |-> [operation |-> name, first_operand |-> y, second_operand |-> x,
                  result |-> r.val]]

\* Calculation(operation, first_operand, second_operand): __post_init__ computes
\* the result; the construction fails when calculate raises
Calculation(name, x, y) ==
    LET r == calculate(name, x, y)
    IN  [err |-> r.err, msg |-> r.msg,
         obj |-> [operation |-> name, first_operand |-> x, second_operand |-> y,
                  result |-> r.val]]

----------------------------------------------------------------------------
(* app/calculation.py: to_dict and from_dict.  Text is a sequence of
   characters.  A timestamp is a datetime read from the clock: the date and
   time of day to the second, counted in seconds, and the microseconds. *)

DigitChars == <<"0", "1", "2", "3", "4", "5", "6", "7", "8", "9">>

IsDigit(ch) == \E d \in 0..9 : DigitChars[d + 1] = ch

Digit(ch) == CHOOSE d \in 0..9 : DigitChars[d + 1] = ch

AllDigits(text) == \A i \in 1..Len(text) : IsDigit(text[i])

\* the decimal digits of n >= 0, and the number a digit sequence stands for
RECURSIVE Digits(_)
Digits(n) ==
    IF n < 10 THEN <<DigitChars[n + 1]>>
    ELSE Append(Digits(n \div 10), DigitChars[(n % 10) + 1])

RECURSIVE Num(_)
Num(text) ==
    IF text = <<>> THEN 0
    ELSE 10 * Num(SubSeq(text, 1, Len(text) - 1)) + Digit(text[Len(text)])

RECURSIVE Zeros(_)
Zeros(n) == IF n <= 0 THEN <<>> ELSE <<"0">> \o Zeros(n - 1)

\* the first place of ch in text, 0 when it is not there
RECURSIVE Find(_, _)
Find(text, ch) ==
    IF text = <<>> THEN 0
    ELSE IF text[1] = ch THEN 1
    ELSE LET p == Find(Tail(text), ch) IN IF p = 0 THEN 0 ELSE p + 1

\* Decimal.__str__: plain notation when the exponent is not positive and the
\* number has at most six leading zeros, else scientific notation
DecStr(d) ==
    LET int == Digits(d.c)
        leftdigits == d.e + Len(int)
        dotplace == IF d.e <= 0 /\ leftdigits > -6 THEN leftdigits ELSE 1
        intpart == IF dotplace <= 0 THEN <<"0">>
                   ELSE IF dotplace >= Len(int)
                   THEN int \o Zeros(dotplace - Len(int))
                   ELSE SubSeq(int, 1, dotplace)
        fracpart == IF dotplace <= 0 THEN <<".">> \o Zeros(-dotplace) \o int
                    ELSE IF dotplace >= Len(int) THEN <<>>
                    ELSE <<".">> \o SubSeq(int, dotplace + 1, Len(int))
        exp == IF leftdigits = dotplace THEN <<>>
               ELSE <<"E", IF leftdigits - dotplace < 0 THEN "-" ELSE "+">>
                    \o Digits(Abs(leftdigits - dotplace))
    IN  (IF d.s = 1 THEN <<"-">> ELSE <<>>) \o intpart \o fracpart \o exp

\* Decimal(text) for the text of a finite number: sign, digits with an optional
\* point, optional exponent; anything else is an InvalidOperation
DecParse(text) ==
    LET signed == text # <<>> /\ text[1] \in {"-", "+"}
        body == IF signed THEN Tail(text) ELSE text
        epos == IF Find(body, "E") # 0 THEN Find(body, "E") ELSE Find(body, "e")
        mantissa == IF epos = 0 THEN body ELSE SubSeq(body, 1, epos - 1)
        exptext == IF epos = 0 THEN <<>> ELSE SubSeq(body, epos + 1, Len(body))
        expsigned == exptext # <<>> /\ exptext[1] \in {"-", "+"}
        expdigits == IF expsigned THEN Tail(exptext) ELSE exptext
        ppos == Find(mantissa, ".")
        intpart == IF ppos = 0 THEN mantissa ELSE SubSeq(mantissa, 1, ppos - 1)
        fracpart == IF ppos = 0 THEN <<>>
                    ELSE SubSeq(mantissa, ppos + 1, Len(mantissa))
        wellformed == /\ intpart \o fracpart # <<>>
                      /\ AllDigits(intpart \o fracpart)
                      /\ AllDigits(expdigits)
                      /\ (epos # 0 => expdigits # <<>>)
    IN  IF ~wellformed THEN [ok |-> FALSE, d |-> Dec(0, 0, 0)]
        ELSE [ok |-> TRUE,
              d |-> Dec(IF signed /\ text[1] = "-" THEN 1 ELSE 0,
                        Num(intpart \o fracpart),
                        (IF expsigned /\ exptext[1] = "-" THEN -1 ELSE 1)
                            * Num(expdigits) - Len(fracpart))]

\* Decimal.__eq__: equality of the numbers, whatever their exponents
DecEq(x, y) ==
    LET m == Min(x.e, y.e)
    IN  /\ x.c * Pow10(x.e - m) = y.c * Pow10(y.e - m)
        /\ (x.c = 0 \/ x.s = y.s)

\* A variant of isoformat that writes the time to the second.
IsoformatToSeconds(t) == Digits(t.second)

\* datetime.isoformat(): the microseconds are written, as six digits, unless
\* they are zero
isoformat(t) ==
    Digits(t.second)
        \o (IF t.microsecond = 0 THEN <<>>
            ELSE LET us == Digits(t.microsecond)
                 IN  <<".">> \o Zeros(6 - Len(us)) \o us)

\* datetime.fromisoformat(text); a text it cannot read is a ValueError
fromisoformat(text) ==
    LET ppos == Find(text, ".")
        seconds == IF ppos = 0 THEN text ELSE SubSeq(text, 1, ppos - 1)
        fraction == IF ppos = 0 THEN <<>> ELSE SubSeq(text, ppos + 1, Len(text))
        wellformed == /\ seconds # <<>>
                      /\ AllDigits(seconds)
                      /\ AllDigits(fraction)
                      /\ (ppos # 0 => Len(fraction) \in {3, 6})
    IN  IF ~wellformed THEN [ok |-> FALSE, t |-> [second |-> 0, microsecond |-> 0]]
        ELSE [ok |-> TRUE,
              t |-> [second |-> Num(seconds),
                     microsecond |-> Num(fraction) * Pow10(6 - Len(fraction))]]

\* a Calculation object with its timestamp field
Stamped(obj, t) ==
    [operation |-> obj.operation, first_operand |-> obj.first_operand,
     second_operand |-> obj.second_operand, result |-> obj.result,
     timestamp |-> t]

\* Calculation.to_dict
to_dict(calc) ==
    [operation |-> calc.operation,
     first_operand |-> DecStr(calc.first_operand),
     second_operand |-> DecStr(calc.second_operand),
     result |-> DecStr(calc.result),
     timestamp |-> isoformat(calc.timestamp)]

\* A variant of the comparison of from_dict that never finds a difference.
MismatchNever(computed, saved) == FALSE

\* from_dict line 101: calc.result != saved_result
Mismatch(computed, saved) == ~DecEq(computed, saved)

InvalidData ==
    [err |-> "OperationError", msg |-> "Invalid calculation data",
     warned |-> FALSE, obj |-> "None"]

\* Calculation.from_dict(data) on a dict that holds the five keys: the operands
\* are parsed, the Calculation is constructed (and computes its result), the
\* timestamp and the stored result are parsed, a stored result that differs is
\* logged as a warning; InvalidOperation and ValueError become OperationError
Calculation_from_dict(data) ==
    LET first_operand == DecParse(data.first_operand)
        second_operand == DecParse(data.second_operand)
    IN  IF ~first_operand.ok \/ ~second_operand.ok THEN InvalidData
        ELSE
        LET calc == Calculation(data.operation, first_operand.d, second_operand.d)
            timestamp == fromisoformat(data.timestamp)
            saved_result == DecParse(data.result)
        IN  IF calc.err # "none"
            THEN [err |-> calc.err, msg |-> calc.msg, warned |-> FALSE,
                  obj |-> "None"]
            ELSE IF ~timestamp.ok \/ ~saved_result.ok THEN InvalidData
            ELSE [err |-> "none", msg |-> "",
                  warned |-> Mismatch(calc.obj.result, saved_result.d),
                  obj |-> Stamped(calc.obj, timestamp.t)]

\* Decimal.quantize(exp) under the default context: the number at exponent e,
\* rounded half to even when digits are dropped (coefficients stay far below the
\* context's 28 digits, so no InvalidOperation is signalled)
Quantize(d, e) ==
    IF d.e >= e THEN Dec(d.s, d.c * Pow10(d.e - e), e)
    ELSE LET p == Pow10(e - d.e)
             q == d.c \div p
             r == d.c % p
         IN  Dec(d.s,
                 IF 2 * r > p \/ (2 * r = p /\ q % 2 = 1) THEN q + 1 ELSE q,
                 e)

\* a precision argument: an int n, or a value of another type
IntPrecision(n) == [int |-> TRUE, n |-> n]

NonIntPrecision == [int |-> FALSE, n |-> 0]

\* Calculation.format_result(precision): '0' * precision is a TypeError unless
\* precision is an int, and the empty text for a negative one; the result is
\* normalized, quantized to Decimal('0.' + '0' * precision), normalized again
\* and written as text
format_result(calc, precision) ==
    IF ~precision.int
    THEN [err |-> "TypeError", msg |-> "can't multiply sequence by non-int",
          val |-> <<>>]
    ELSE IF calc.operation = "IntegerDivision"
    THEN [err |-> "none", msg |-> "",
          val |-> LET n == IF calc.result.e >= 0
                               THEN calc.result.c * Pow10(calc.result.e)
                               ELSE calc.result.c \div Pow10(-calc.result.e)
                   IN  DecStr(DecInt(IF calc.result.s = 1 THEN -n ELSE n))]
    ELSE LET exp == DecParse(<<"0", ".">> \o Zeros(precision.n)).d
         IN  [err |-> "none", msg |-> "",
              val |-> DecStr(normalize(Quantize(normalize(calc.result), exp.e)))]

----------------------------------------------------------------------------
(* app/input_validators.py *)

\* An operand as the caller passes it: whether Decimal(str(value).strip())
\* parses, and the number it parses to.
Parsed(d) == [parses |-> TRUE, d |-> d]

Unparseable == [parses |-> FALSE, d |-> Dec(0, 0, 0)]

\* A variant of validate_number that also refuses a magnitude equal to the
\* maximum.
ValidateNumberBelowMax(value, cfg) ==
    IF ~value.parses THEN Raise("ValidationError", "Invalid number format")
    ELSE IF ~DecGreaterAbs(value.d, cfg.max_input_value - 1)
    THEN Ok(normalize(value.d))
    ELSE Raise("ValidationError", "Value exceeds maximum allowed")

\* InputValidator.validate_number: InvalidOperation and an oversized magnitude
\* are ValidationErrors; the number is returned normalized
validate_number(value, cfg) ==
    IF ~value.parses THEN Raise("ValidationError", "Invalid number format")
    ELSE IF DecGreaterAbs(value.d, cfg.max_input_value)
    THEN Raise("ValidationError", "Value exceeds maximum allowed")
    ELSE Ok(normalize(value.d))

----------------------------------------------------------------------------
(* app/calculator_memento.py and the object store *)

\* CalculatorMemento(history): holds the list it is given
CalculatorMemento(h) == [history |-> h]

\* list.copy(): a new list of the same elements
Copy(h) == h

Range(q) == {q[i] : i \in DOMAIN q}

\* The heap is the sequence of the Calculation objects in use; an object's id is
\* its place in it.  The id a newly constructed object gets is the next one.
NewId(hp) == Len(hp) + 1

RECURSIVE Flatten(_)
Flatten(st) == IF st = <<>> THEN <<>> ELSE Head(st).history \o Flatten(Tail(st))

\* the ids of a sequence in the order of their first occurrence
RECURSIVE FirstOccurrences(_, _)
FirstOccurrences(q, seen) ==
    IF q = <<>> THEN <<>>
    ELSE IF Head(q) \in seen THEN FirstOccurrences(Tail(q), seen)
    ELSE <<Head(q)>> \o FirstOccurrences(Tail(q), seen \cup {Head(q)})

RECURSIVE IndexOf(_, _)
IndexOf(q, x) == IF Head(q) = x THEN 1 ELSE 1 + IndexOf(Tail(q), x)

RECURSIVE Renamed(_, _)
Renamed(h, order) ==
    IF h = <<>> THEN <<>>
    ELSE <<IndexOf(order, Head(h))>> \o Renamed(Tail(h), order)

RECURSIVE RenamedStack(_, _)
RenamedStack(st, order) ==
    IF st = <<>> THEN <<>>
    ELSE <<CalculatorMemento(Renamed(Head(st).history, order))>>
         \o RenamedStack(Tail(st), order)

RECURSIVE Objects(_, _)
Objects(hp, order) ==
    IF order = <<>> THEN <<>> ELSE <<hp[Head(order)]>> \o Objects(hp, Tail(order))

\* Object ids stand for object identity, which this code never reads: a state is
\* kept with its objects numbered in the order in which the history, the undo
\* stack and the redo stack first refer to them, and without the objects nothing
\* refers to.
Collect(hp, h, u, r) ==
    LET order == FirstOccurrences(h \o Flatten(u) \o Flatten(r), {})
    IN  [heap |-> Objects(hp, order),
         history |-> Renamed(h, order),
         undo_stack |-> RenamedStack(u, order),
         redo_stack |-> RenamedStack(r, order)]

\* the Calculations a list of ids refers to
RECURSIVE Values(_, _)
Values(hp, h) ==
    IF h = <<>> THEN <<>> ELSE <<hp[Head(h)]>> \o Values(hp, Tail(h))

RECURSIVE StackValues(_, _)
StackValues(hp, st) ==
    IF st = <<>> THEN <<>>
    ELSE <<Values(hp, Head(st).history)>> \o StackValues(hp, Tail(st))

----------------------------------------------------------------------------
(* the history file, app/calculator.py save_history and load_history *)

NoFile == [exists |-> FALSE, rows |-> <<>>]

\* one CSV row of save_history: the fields as text.  The operands and results
\* explored are integers, whose text pandas reads back as the same integer.
Row(calc) ==
    [operation |-> calc.operation, first_operand |-> calc.first_operand,
     second_operand |-> calc.second_operand, result |-> calc.result]

\* save_history: the file written from the live history (an empty history
\* writes the header alone)
RECURSIVE Rows(_, _)
Rows(hp, h) ==
    IF h = <<>> THEN <<>> ELSE <<Row(hp[Head(h)])>> \o Rows(hp, Tail(h))

SavedFile(hp, h) == [exists |-> TRUE, rows |-> Rows(hp, h)]

\* Calculation.from_dict on a row: the Calculation is rebuilt from operation and
\* operands, and the stored result is only compared with the computed one
from_dict(row) == Calculation(row.operation, row.first_operand, row.second_operand)

\* load_history lines 207-224: the list the live history is replaced by, or the
\* history as it is when the file is missing or holds no row
LoadedCount(file, h) ==
    IF file.exists /\ Len(file.rows) > 0 THEN Len(file.rows) ELSE 0

----------------------------------------------------------------------------
(* app/calculator.py: the bodies of the state-changing methods, as functions *)
(* of the history h, the undo stack u and the redo stack r                   *)

Stacks(h, u, r) == [history |-> h, undo_stack |-> u, redo_stack |-> r]

Pop(st) == SubSeq(st, 1, Len(st) - 1)

Top(st) == st[Len(st)]

\* Variants of lines 150-155 that the properties of perform_operation tell
\* apart from the code: the memento taken after the append instead of before;
\* the redo stack left as it was; the newest entry dropped instead of the oldest.
RecordAfterAppend(h, u, r, id, cap) ==
    LET appended == Append(h, id)
    IN  Stacks(IF Len(appended) > cap THEN Tail(appended) ELSE appended,
               Append(u, CalculatorMemento(Copy(appended))),
               <<>>)

RecordKeepingRedo(h, u, r, id, cap) ==
    LET appended == Append(h, id)
    IN  Stacks(IF Len(appended) > cap THEN Tail(appended) ELSE appended,
               Append(u, CalculatorMemento(Copy(h))),
               r)

RecordEvictingNewest(h, u, r, id, cap) ==
    LET appended == Append(h, id)
    IN  Stacks(IF Len(appended) > cap THEN h ELSE appended,
               Append(u, CalculatorMemento(Copy(h))),
               <<>>)

\* A variant of lines 150-155 whose memento leaves out the entry the cap is
\* about to evict.
RecordCappedMemento(h, u, r, id, cap) ==
    LET appended == Append(h, id)
        evicts == Len(appended) > cap
    IN  Stacks(IF evicts THEN Tail(appended) ELSE appended,
               Append(u, CalculatorMemento(Copy(IF evicts THEN Tail(h) ELSE h))),
               <<>>)

\* perform_operation lines 150-155: the memento of the history as it is, the redo
\* stack cleared, the new calculation appended, the oldest entry dropped when the
\* history has outgrown max_history_size
RecordCalculation(h, u, r, id, cap) ==
    LET appended == Append(h, id)
    IN  Stacks(IF Len(appended) > cap THEN Tail(appended) ELSE appended,
               Append(u, CalculatorMemento(Copy(h))),
               <<>>)

\* Variants of undo: one that pushes the memento it popped, not the current
\* history, onto the redo stack; one without the test for an empty stack, which
\* then restores an empty history.
UndoPushingPopped(h, u, r) ==
    IF u = <<>>
    THEN [ret |-> FALSE, s |-> Stacks(h, u, r)]
    ELSE [ret |-> TRUE,
          s |-> Stacks(Copy(Top(u).history), Pop(u), Append(r, Top(u)))]

UndoUnguarded(h, u, r) ==
    [ret |-> u # <<>>,
     s |-> Stacks(IF u = <<>> THEN <<>> ELSE Copy(Top(u).history),
                  IF u = <<>> THEN u ELSE Pop(u),
                  Append(r, CalculatorMemento(Copy(h))))]

\* A variant of undo that restores the memento without keeping a snapshot for
\* redo.
UndoDiscarding(h, u, r) ==
    IF u = <<>>
    THEN [ret |-> FALSE, s |-> Stacks(h, u, r)]
    ELSE [ret |-> TRUE, s |-> Stacks(Copy(Top(u).history), Pop(u), r)]

\* Calculator.undo: [ret, history, undo_stack, redo_stack]
UndoResult(h, u, r) ==
    IF u = <<>>
    THEN [ret |-> FALSE, s |-> Stacks(h, u, r)]
    ELSE LET memento == Top(u)
         IN  [ret |-> TRUE,
              s |-> Stacks(Copy(memento.history),
                           Pop(u),
                           Append(r, CalculatorMemento(Copy(h))))]

\* The same variant of redo without the test for an empty stack.
RedoUnguarded(h, u, r) ==
    [ret |-> r # <<>>,
     s |-> Stacks(IF r = <<>> THEN <<>> ELSE Copy(Top(r).history),
                  Append(u, CalculatorMemento(Copy(h))),
                  IF r = <<>> THEN r ELSE Pop(r))]

\* Calculator.redo
RedoResult(h, u, r) ==
    IF r = <<>>
    THEN [ret |-> FALSE, s |-> Stacks(h, u, r)]
    ELSE LET memento == Top(r)
         IN  [ret |-> TRUE,
              s |-> Stacks(Copy(memento.history),
                           Append(u, CalculatorMemento(Copy(h))),
                           Pop(r))]

\* A clear of the history alone.
ClearHistoryOnly(h, u, r) == Stacks(<<>>, u, r)

\* Calculator.clear_history
ClearResult(h, u, r) == Stacks(<<>>, <<>>, <<>>)

\* one call observer.update(calculation): which observer, with which Calculation
Update(i, calculation) == [observer |-> i, calculation |-> calculation]

\* no Calculation: the None an observer can be handed
NoCalculation == [none |-> TRUE]

\* A variant of update in which the AutoSaveObserver saves before it looks at
\* the calculation.
UpdateSavingFirst(observer, calculation, cfg, hp, h, file, ioOk) ==
    IF observer = "AutoSaveObserver" /\ cfg.auto_save
    THEN [err |-> IF ioOk THEN "none" ELSE "OperationError",
          file |-> IF ioOk THEN SavedFile(hp, h) ELSE file, saves |-> 1]
    ELSE IF calculation = NoCalculation
    THEN [err |-> "AttributeError", file |-> file, saves |-> 0]
    ELSE [err |-> "none", file |-> file, saves |-> 0]

\* A variant of update in which the AutoSaveObserver saves whatever the
\* configuration says.
UpdateAlwaysSaving(observer, calculation, cfg, hp, h, file, ioOk) ==
    IF calculation = NoCalculation
    THEN [err |-> "AttributeError", file |-> file, saves |-> 0]
    ELSE IF observer = "AutoSaveObserver"
    THEN [err |-> IF ioOk THEN "none" ELSE "OperationError",
          file |-> IF ioOk THEN SavedFile(hp, h) ELSE file, saves |-> 1]
    ELSE [err |-> "none", file |-> file, saves |-> 0]

\* LoggingObserver.update and AutoSaveObserver.update on the calculator with
\* configuration cfg and history h: both refuse None; the LoggingObserver logs,
\* the AutoSaveObserver calls save_history when cfg.auto_save is set.  ioOk says
\* whether save_history can write the file; `saves' counts its calls.
observer_update(observer, calculation, cfg, hp, h, file, ioOk) ==
    IF calculation = NoCalculation
    THEN [err |-> "AttributeError", file |-> file, saves |-> 0]
    ELSE IF observer = "AutoSaveObserver" /\ cfg.auto_save
    THEN [err |-> IF ioOk THEN "none" ELSE "OperationError",
          file |-> IF ioOk THEN SavedFile(hp, h) ELSE file, saves |-> 1]
    ELSE [err |-> "none", file |-> file, saves |-> 0]

\* Calculator.notify_observers(calculation) from observer i on, over the updated
\* history h.  failAt is the observer whose save_history fails (0: none does);
\* the exception of an update ends the loop.
RECURSIVE NotifyFrom(_, _, _, _, _, _, _, _, _)
NotifyFrom(obs, i, calculation, cfg, hp, h, file, notified, failAt) ==
    IF i > Len(obs)
    THEN [err |-> "none", file |-> file, notified |-> notified]
    ELSE LET r == observer_update(obs[i], calculation, cfg, hp, h, file,
                                  i # failAt)
         IN  IF r.err # "none"
             THEN [err |-> r.err, file |-> r.file,
                   notified |-> Append(notified, Update(i, calculation))]
             ELSE NotifyFrom(obs, i + 1, calculation, cfg, hp, h, r.file,
                             Append(notified, Update(i, calculation)), failAt)

\* A variant that notifies the observers over the history as it was before the
\* calculation was recorded.
NotifyBeforeRecording(obs, calculation, cfg, hp, h, file, failAt) ==
    NotifyFrom(obs, 1, calculation, cfg, heap, history, file, <<>>, failAt)

notify_observers(obs, calculation, cfg, hp, h, file, failAt) ==
    NotifyFrom(obs, 1, calculation, cfg, hp, h, file, <<>>, failAt)

\* load_history: one Calculation per row of the file, each a new object; any
\* row that from_dict refuses makes the whole load fail
LoadFails(file) ==
    /\ file.exists
    /\ \E i \in 1..Len(file.rows) : from_dict(file.rows[i]).err # "none"

----------------------------------------------------------------------------
(* the state machine *)

None == "None"

Call(name, outcome, ret, notified) ==
    [call |-> name, outcome |-> outcome, ret |-> ret, notified |-> notified]

\* a call of perform_operation that raised: the exception class and its message
Raised(name, kind, msg, notified) ==
    [call |-> name, outcome |-> kind, ret |-> None, notified |-> notified,
     msg |-> msg]

\* the values of max_history_size the program is configured with
Caps == {1, 2}

Configs ==
    [max_history_size : Caps, auto_save : BOOLEAN,
     max_input_value : {MaxInputValue}]

\* the strategies and operands the calculator is driven with
DrivenStrategies == {"Division", "IntDivide"}

\* the operand pairs typed in: a zero divisor, two pairs in range, a first
\* operand that does not parse, a second operand above max_input_value
OperandPairs ==
    {<<Parsed(DecInt(1)), Parsed(DecInt(0))>>,
     <<Parsed(DecInt(1)), Parsed(DecInt(1))>>,
     <<Parsed(DecInt(0)), Parsed(DecInt(1))>>,
     <<Unparseable, Parsed(DecInt(1))>>,
     <<Parsed(DecInt(1)), Parsed(DecInt(MaxInputValue + 1))>>}

\* a word typed at an operand prompt: no number, and kept as typed
Typed(word) == [parses |-> FALSE, d |-> Dec(0, 0, 0), text |-> word]

\* the answers to the two operand prompts that hold the word cancel, at the
\* first and at the second prompt, in three letter cases
CancelPairs ==
    {<<Typed("CANCEL"), Parsed(DecInt(1))>>,
     <<Parsed(DecInt(1)), Typed("Cancel")>>,
     <<Parsed(DecInt(1)), Typed("cancel")>>}

\* the Calculation objects from_dict builds from the rows of the file
RECURSIVE LoadedObjects(_)
LoadedObjects(rows) ==
    IF rows = <<>> THEN <<>>
    ELSE <<from_dict(Head(rows)).obj>> \o LoadedObjects(Tail(rows))

RECURSIVE Iota(_, _)
Iota(from, n) == IF n = 0 THEN <<>> ELSE <<from>> \o Iota(from + 1, n - 1)

\* the live history replaced by the rows of the file (load_history lines 207-224)
LoadInto(hp, h, file) ==
    IF LoadedCount(file, h) = 0
    THEN [history |-> h, heap |-> hp]
    ELSE [history |-> Iota(NewId(hp), Len(file.rows)),
          heap |-> hp \o LoadedObjects(file.rows)]

\* the new state of the objects, the history and the two stacks
Store(hp, h, u, r) ==
    LET c == Collect(hp, h, u, r)
    IN  /\ heap' = c.heap
        /\ history' = c.history
        /\ undo_stack' = c.undo_stack
        /\ redo_stack' = c.redo_stack

\* Calculator.__init__ lines 36-55: a validated configuration, empty history and
\* stacks, no strategy, no observer, then load_history with its failure logged
\* and swallowed
Calculator_init(cfg) ==
    /\ config' = cfg
    /\ operation_strategy' = NoStrategy
    /\ LET loaded == IF LoadFails(history_file)
                     THEN [history |-> <<>>, heap |-> <<>>]
                     ELSE LoadInto(<<>>, <<>>, history_file)
       IN  Store(loaded.heap, loaded.history, <<>>, <<>>)
    /\ last' = Call("__init__", "ok", None, <<>>)
    /\ UNCHANGED history_file

\* Calculator.add_observer
add_observer(obs, observer) == Append(obs, observer)

\* Calculator.set_operation
set_operation(operation) == operation_strategy' = operation

\* the text of an exception as raised, and line 164: the text of any exception
\* other than ValidationError is wrapped
Message(msg) == <<msg>>

OperationFailed(msg) == <<"Operation failed", msg>>

\* A variant of the raising paths that records a memento before it raises.
PerformRaisesRecording(kind, msg) ==
    /\ last' = Raised("perform_operation", kind, msg, <<>>)
    /\ Store(heap, history,
             Append(undo_stack, CalculatorMemento(Copy(history))), redo_stack)
    /\ UNCHANGED history_file

\* a call of perform_operation that raises before anything is changed
PerformRaises(kind, msg) ==
    /\ last' = Raised("perform_operation", kind, msg, <<>>)
    /\ UNCHANGED <<heap, history, undo_stack, redo_stack, history_file>>

\* A variant of the except clauses that wraps every exception of the try block.
SurfacedWrapped(kind) == "OperationError"

\* lines 159-164, the except clauses: a ValidationError raised in the try block
\* leaves perform_operation as it is, any other exception as an OperationError
Surfaced(kind) ==
    IF kind = "ValidationError" THEN "ValidationError" ELSE "OperationError"

\* Calculator.perform_operation with `strategy' as self.operation_strategy
perform_operation(strategy, a, b, failAt) ==
    IF strategy = NoStrategy
    THEN PerformRaises("OperationError", Message("No operation set"))
    ELSE
    LET validated_a == validate_number(a, config)
        validated_b == validate_number(b, config)
    IN  IF validated_a.err # "none" \/ validated_b.err # "none"
        THEN PerformRaises(Surfaced("ValidationError"),
                           IF validated_a.err # "none"
                           THEN Message(validated_a.msg)
                           ELSE Message(validated_b.msg))
        ELSE
        LET result == execute(strategy, validated_a.val, validated_b.val)
            calculation == Calculation(OperationStr(strategy),
                                       validated_a.val, validated_b.val)
        IN  IF result.err = "ValidationError"
            THEN PerformRaises(Surfaced(result.err), Message(result.msg))
            ELSE IF result.err # "none"
            THEN PerformRaises(Surfaced(result.err), OperationFailed(result.msg))
            ELSE IF calculation.err # "none"
            THEN PerformRaises(Surfaced(calculation.err),
                               OperationFailed(calculation.msg))
            ELSE
            LET id == NewId(heap)
                s == RecordCalculation(history, undo_stack, redo_stack, id,
                                       config.max_history_size)
                hp == Append(heap, calculation.obj)
                n == notify_observers(observers, calculation.obj, config, hp,
                                      s.history, history_file, failAt)
            IN  /\ Store(hp, s.history, s.undo_stack, s.redo_stack)
                /\ history_file' = n.file
                /\ last' = IF n.err = "none"
                           THEN Call("perform_operation", "ok", result.val,
                                     n.notified)
                           ELSE Raised("perform_operation", "OperationError",
                                       OperationFailed("Failed to save history"),
                                       n.notified)

\* Calculator.save_history; ioOk says whether the file could be written
save_history(ioOk) ==
    /\ history_file' = IF ioOk THEN SavedFile(heap, history) ELSE history_file
    /\ last' = Call("save_history", IF ioOk THEN "ok" ELSE "OperationError", None, <<>>)

\* A variant of load_history that starts the undo and redo stacks afresh.
LoadHistoryClearingStacks(ioOk) ==
    /\ IF (history_file.exists /\ ~ioOk) \/ LoadFails(history_file)
       THEN /\ last' = Call("load_history", "OperationError", None, <<>>)
            /\ UNCHANGED <<heap, history, undo_stack, redo_stack>>
       ELSE LET loaded == LoadInto(heap, history, history_file)
            IN  /\ Store(loaded.heap, loaded.history, <<>>, <<>>)
                /\ last' = Call("load_history", "ok", None, <<>>)

\* Calculator.load_history; ioOk says whether the file could be read
load_history(ioOk) ==
    /\ IF (history_file.exists /\ ~ioOk) \/ LoadFails(history_file)
       THEN /\ last' = Call("load_history", "OperationError", None, <<>>)
            /\ UNCHANGED <<heap, history, undo_stack, redo_stack>>
       ELSE LET loaded == LoadInto(heap, history, history_file)
            IN  /\ Store(loaded.heap, loaded.history, undo_stack, redo_stack)
                /\ last' = Call("load_history", "ok", None, <<>>)

\* Calculator.clear_history
clear_history ==
    /\ LET s == ClearResult(history, undo_stack, redo_stack)
       IN  Store(heap, s.history, s.undo_stack, s.redo_stack)
    /\ last' = Call("clear_history", "ok", None, <<>>)

\* Calculator.undo
undo ==
    LET res == UndoResult(history, undo_stack, redo_stack)
    IN  /\ Store(heap, res.s.history, res.s.undo_stack, res.s.redo_stack)
        /\ last' = Call("undo", "ok", res.ret, <<>>)

\* Calculator.redo
redo ==
    LET res == RedoResult(history, undo_stack, redo_stack)
    IN  /\ Store(heap, res.s.history, res.s.undo_stack, res.s.redo_stack)
        /\ last' = Call("redo", "ok", res.ret, <<>>)

----------------------------------------------------------------------------
(* app/calculator_repl.py: the program.  calculator_repl builds a Calculator, *)
(* registers a LoggingObserver and an AutoSaveObserver and then serves one    *)
(* command per step.  The help and history commands change no state and are  *)
(* not steps.                                                                 *)

\* the process is running until the exit command has ended it
Running == last.call # "exit"

\* calculator_repl lines 13-16, on any start of the program.  The program can
\* be ended at any prompt (EOF ends the loop without saving) and started again.
ReplStart(cfg) ==
    /\ Calculator_init(cfg)
    /\ observers' = add_observer(add_observer(<<>>, "LoggingObserver"),
                                 "AutoSaveObserver")
    /\ UNCHANGED operations

\* A variant of the test of lines 97 and 101 that compares the word as typed.
CancelledAsTyped(a) == "text" \in DOMAIN a /\ a.text = "cancel"

\* lines 97 and 101: the answer to an operand prompt is the word cancel
Cancelled(a) == "text" \in DOMAIN a /\ lower(a.text) = "cancel"

\* lines 93-117: an operation command.  The word cancel at either prompt ends
\* the command; with both operands entered the strategy is created and set,
\* then perform_operation runs and its errors are printed
ReplOperation(command, a, b, failAt) ==
    /\ Running
    /\ IF Cancelled(a) \/ Cancelled(b)
       THEN /\ last' = Call("cancel", "ok", None, <<>>)
            /\ UNCHANGED <<heap, history, undo_stack, redo_stack,
                           operation_strategy, history_file>>
       ELSE /\ Len(undo_stack) < MaxStack
            /\ set_operation(command)
            /\ perform_operation(command, a, b, failAt)
    /\ UNCHANGED <<operations, config, observers>>

\* A variant of the clear command that also writes the cleared history to
\* the file, as a notified AutoSaveObserver would.
ReplClearSaving ==
    /\ Running
    /\ clear_history
    /\ history_file' = SavedFile(<<>>, <<>>)
    /\ UNCHANGED <<operations, config, operation_strategy, observers>>

\* lines 58-61
ReplClear ==
    /\ Running
    /\ clear_history
    /\ UNCHANGED <<operations, config, operation_strategy, observers, history_file>>

\* lines 63-68
ReplUndo ==
    /\ Running
    /\ undo
    /\ UNCHANGED <<operations, config, operation_strategy, observers, history_file>>

\* lines 70-75
ReplRedo ==
    /\ Running
    /\ redo
    /\ UNCHANGED <<operations, config, operation_strategy, observers, history_file>>

\* lines 77-83
ReplSave(ioOk) ==
    /\ Running
    /\ save_history(ioOk)
    /\ UNCHANGED <<operations, config, heap, history, undo_stack, redo_stack,
                   operation_strategy, observers>>

\* lines 85-91
ReplLoad(ioOk) ==
    /\ Running
    /\ load_history(ioOk)
    /\ UNCHANGED <<operations, config, operation_strategy, observers, history_file>>

\* lines 36-45: the exit command saves the history and ends the process; what
\* the process held in memory is gone
ReplExit(ioOk) ==
    /\ Running
    /\ history_file' = IF ioOk THEN SavedFile(heap, history) ELSE history_file
    /\ Store(<<>>, <<>>, <<>>, <<>>)
    /\ operation_strategy' = NoStrategy
    /\ observers' = <<>>
    /\ last' = Call("exit", IF ioOk THEN "ok" ELSE "OperationError", None, <<>>)
    /\ UNCHANGED <<operations, config>>

\* the first start of the program: no history file yet
Init ==
    /\ config \in Configs
    /\ heap = <<>>
    /\ history = <<>>
    /\ undo_stack = <<>>
    /\ redo_stack = <<>>
    /\ operation_strategy = NoStrategy
    /\ observers = <<"LoggingObserver", "AutoSaveObserver">>
    /\ history_file = NoFile
    /\ operations = BuiltinOperations
    /\ last = Call("__init__", "ok", None, <<>>)

Start == \E cfg \in Configs : ReplStart(cfg)

Operation ==
    \E command \in DrivenStrategies, ab \in OperandPairs \cup CancelPairs,
       failAt \in {0} \cup {i \in 1..Len(observers) : observers[i] = "AutoSaveObserver"} :
        ReplOperation(command, ab[1], ab[2], failAt)

Save == \E ioOk \in BOOLEAN : ReplSave(ioOk)

Load == \E ioOk \in BOOLEAN : ReplLoad(ioOk)

Exit == \E ioOk \in BOOLEAN : ReplExit(ioOk)

Next ==
    \/ Start
    \/ Operation
    \/ ReplClear
    \/ ReplUndo
    \/ ReplRedo
    \/ Save
    \/ Load
    \/ Exit

Spec == Init /\ [][Next]_vars

----------------------------------------------------------------------------
(* A second specification for the ownership of the Calculation objects.      *)
(* Calculation is a dataclass that is not frozen: whoever holds a reference   *)
(* to one of the objects of the live history can assign its fields.           *)

\* the value assigned to the field
AssignedResult == DecInt(2)

\* calc.result = value, for the Calculation object `id' of the live history
SetResult(id, value) ==
    /\ Running
    /\ heap' = [heap EXCEPT ![id].result = value]
    /\ last' = Call("Calculation.result", "ok", None, <<>>)
    /\ UNCHANGED <<operations, config, history, undo_stack, redo_stack, operation_strategy,
                   observers, history_file>>

Assign == \E id \in Range(history) : SetResult(id, AssignedResult)

\* the commands that change the history or the stacks, and the assignment
NextAlias ==
    \/ Operation
    \/ ReplUndo
    \/ ReplRedo
    \/ Load
    \/ Assign

SpecAlias == Init /\ [][NextAlias]_vars

----------------------------------------------------------------------------
(* A third specification: the Calculator driven through its own methods by a  *)
(* client that constructs it, registers observers, selects strategies and     *)
(* calls perform_operation (the tests of app/ are such clients).              *)

\* most observers registered
MaxObservers == 2

\* the observer classes of app/logger.py
ObserverKinds == {"LoggingObserver", "AutoSaveObserver"}

\* the history file the constructor finds: none, or one saved calculation
PersistedFiles ==
    {NoFile,
     SavedFile(<<Calculation("Addition", DecInt(1), DecInt(1)).obj>>, <<1>>)}

\* the operands passed to perform_operation: in range with either sign and with
\* zero, one that does not parse, one above max_input_value
CalcOperandPairs ==
    {<<Parsed(DecInt(1)), Parsed(DecInt(1))>>,
     <<Parsed(DecInt(1)), Parsed(DecInt(0))>>,
     <<Parsed(DecInt(1)), Parsed(DecInt(-1))>>,
     <<Parsed(DecInt(-1)), Parsed(DecInt(1))>>,
     <<Parsed(DecInt(0)), Parsed(DecInt(-1))>>,
     <<Unparseable, Parsed(DecInt(1))>>,
     <<Parsed(DecInt(1)), Parsed(DecInt(MaxInputValue + 1))>>}

\* Calculator(config) with the history file as it is found
InitCalc ==
    /\ config \in Configs
    /\ history_file \in PersistedFiles
    /\ LET loaded == LoadInto(<<>>, <<>>, history_file)
       IN  /\ heap = loaded.heap
           /\ history = loaded.history
    /\ undo_stack = <<>>
    /\ redo_stack = <<>>
    /\ operation_strategy = NoStrategy
    /\ observers = <<>>
    /\ operations = BuiltinOperations
    /\ last = Call("__init__", "ok", None, <<>>)

CalcAddObserver ==
    \E observer \in ObserverKinds :
        /\ Len(observers) < MaxObservers
        /\ observers' = add_observer(observers, observer)
        /\ last' = Call("add_observer", "ok", None, <<>>)
        /\ UNCHANGED <<operations, config, heap, history, undo_stack, redo_stack,
                       operation_strategy, history_file>>

CalcSetOperation ==
    \E operation \in Strategies :
        /\ set_operation(operation)
        /\ last' = Call("set_operation", "ok", None, <<>>)
        /\ UNCHANGED <<operations, config, heap, history, undo_stack, redo_stack,
                       observers, history_file>>

CalcPerform ==
    \E ab \in CalcOperandPairs,
       failAt \in {0} \cup {i \in 1..Len(observers) : observers[i] = "AutoSaveObserver"} :
        /\ Len(undo_stack) < MaxStack
        /\ perform_operation(operation_strategy, ab[1], ab[2], failAt)
        /\ UNCHANGED <<operations, config, operation_strategy, observers>>

\* observer.update(calculation) called on a registered observer, with None or
\* with a Calculation of the history
ObserverUpdate ==
    \E i \in 1..Len(observers),
       calculation \in {NoCalculation} \cup {heap[id] : id \in Range(history)},
       ioOk \in BOOLEAN :
        LET r == observer_update(observers[i], calculation, config, heap, history,
                                 history_file, ioOk)
        IN  /\ history_file' = r.file
            /\ last' = [call |-> "update", observer |-> observers[i],
                         calculation |-> calculation, outcome |->
                             IF r.err = "none" THEN "ok" ELSE r.err,
                         saves |-> r.saves, ret |-> None, notified |-> <<>>]
            /\ UNCHANGED <<operations, config, heap, history, undo_stack,
                           redo_stack, operation_strategy, observers>>

NextObserver ==
    \/ CalcAddObserver
    \/ ObserverUpdate

SpecObserver == InitCalc /\ [][NextObserver]_vars

NextCalc ==
    \/ CalcAddObserver
    \/ CalcSetOperation
    \/ CalcPerform

SpecCalc == InitCalc /\ [][NextCalc]_vars

----------------------------------------------------------------------------
(* The strategies and the Calculation record called on their own: execute(a, b)
   of a strategy object and the construction Calculation(name, a, b), over
   integral operands.  The calculator is left as constructed; `last' records
   the call and what it returned or raised. *)

MaxOperand == 2

Operands == {DecInt(n) : n \in -MaxOperand..MaxOperand}

\* the names a Calculation is constructed with: the keys of the rule table and
\* the display names of the strategies
ConstructedNames == CalculationNames \cup {OperationStr(op) : op \in Strategies}

\* x / y has a short exact decimal expansion
QuotientExact(x, y) ==
    IF IsZero(y) THEN TRUE ELSE \E k \in 0..2 : (x.c * Pow10(k)) % y.c = 0

\* the operand pairs on which the arithmetic of the rule is modelled exactly
Representable(name, x, y) ==
    CASE name \in {"Division", "Percent"} -> QuotientExact(x, y)
      [] name = "Root" ->
            IF IsNegative(x) \/ IsZero(y) THEN TRUE ELSE FloatRootExact(x, y)
      [] OTHER -> TRUE

PureCall(name, operation, a, b, r) ==
    [call |-> name, operation |-> operation, a |-> a, b |-> b,
     outcome |-> IF r.err = "none" THEN "ok" ELSE r.err,
     msg |-> r.msg, ret |-> IF r.err = "none" THEN r.val ELSE None,
     notified |-> <<>>]

InitOps ==
    /\ InitCalc
    /\ history_file = NoFile
    /\ config = [max_history_size |-> 2, auto_save |-> TRUE,
                 max_input_value |-> MaxInputValue]

\* operation.execute(a, b) on a strategy object
Execute ==
    \E op \in Strategies, a \in Operands, b \in Operands :
        /\ Representable(op, a, b)
        /\ last' = PureCall("execute", op, a, b, execute(op, a, b))
        /\ UNCHANGED <<operations, config, heap, history, undo_stack, redo_stack,
                       operation_strategy, observers, history_file>>

\* Calculation(operation=name, first_operand=a, second_operand=b)
Construct ==
    \E name \in ConstructedNames, a \in Operands, b \in Operands :
        /\ Representable(name, a, b)
        /\ LET c == Calculation(name, a, b)
           IN  last' = PureCall("Calculation", name, a, b,
                                [err |-> c.err, msg |-> c.msg, val |-> c.obj.result])
        /\ UNCHANGED <<operations, config, heap, history, undo_stack, redo_stack,
                       operation_strategy, observers, history_file>>

\* the precisions format_result is called with
MaxPrecision == 2

Precisions ==
    {IntPrecision(n) : n \in -MaxPrecision..MaxPrecision} \cup {NonIntPrecision}

\* calc.format_result(precision) on the Calculation that was just constructed
FormatResult ==
    /\ last.call = "Calculation"
    /\ last.outcome = "ok"
    /\ \E precision \in Precisions :
          LET calc == Calculation(last.operation, last.a, last.b).obj
              r == format_result(calc, precision)
          IN  last' = [call |-> "format_result", operation |-> last.operation,
                       a |-> last.a, b |-> last.b, result |-> calc.result,
                       precision |-> precision,
                       outcome |-> IF r.err = "none" THEN "ok" ELSE r.err,
                       msg |-> r.msg,
                       ret |-> IF r.err = "none" THEN r.val ELSE None,
                       notified |-> <<>>]
    /\ UNCHANGED <<operations, config, heap, history, undo_stack, redo_stack,
                   operation_strategy, observers, history_file>>

NextOps ==
    \/ Execute
    \/ Construct
    \/ FormatResult

SpecOps == InitOps /\ [][NextOps]_vars

----------------------------------------------------------------------------
(* The operation factory called on its own: register_operation,
   create_operation and get_operations on the registry of the class. *)

\* the names the factory is called with, and the classes handed to it
FactoryNames == {"add", "ADD", "cube", "Cube", "CUBE", "square"}

RegisteredClasses == {"Addition", "Cube", "Square", "int"}

FactoryCall(name, arg, cls, outcome, msg, ret) ==
    [call |-> name, name |-> arg, cls |-> cls, outcome |-> outcome,
     msg |-> msg, ret |-> ret, notified |-> <<>>]

\* OperationFactory.register_operation(name, operation_class)
register_operation(name, cls) ==
    IF ~IsOperationClass(cls)
    THEN /\ last' = FactoryCall("register_operation", name, cls, "TypeError",
                                "Operation class must inherit from Operation", None)
         /\ UNCHANGED operations
    ELSE /\ operations' = Registered(operations, name, cls)
         /\ last' = FactoryCall("register_operation", name, cls, "ok", "", None)

\* OperationFactory.create_operation(operation_type); the instance returned is
\* named by its class
create_operation(name) ==
    LET operation_class == Get(operations, lower(name))
    IN  /\ last' = IF operation_class = NoClass
                   THEN FactoryCall("create_operation", name, NoClass, "ValueError",
                                    "Unknown operation", None)
                   ELSE FactoryCall("create_operation", name, operation_class, "ok",
                                    "", operation_class)
        /\ UNCHANGED operations

\* OperationFactory.get_operations()
get_operations ==
    /\ last' = FactoryCall("get_operations", "", NoClass, "ok", "", Keys(operations))
    /\ UNCHANGED operations

Register ==
    \E name \in FactoryNames, cls \in RegisteredClasses :
        /\ register_operation(name, cls)
        /\ UNCHANGED <<config, heap, history, undo_stack, redo_stack,
                       operation_strategy, observers, history_file>>

Create ==
    \E name \in FactoryNames :
        /\ create_operation(name)
        /\ UNCHANGED <<config, heap, history, undo_stack, redo_stack,
                       operation_strategy, observers, history_file>>

GetOperations ==
    /\ get_operations
    /\ UNCHANGED <<config, heap, history, undo_stack, redo_stack,
                   operation_strategy, observers, history_file>>

NextFactory ==
    \/ Register
    \/ Create
    \/ GetOperations

SpecFactory == InitOps /\ [][NextFactory]_vars

----------------------------------------------------------------------------
(* Properties of the history, the undo stack and the redo stack *)

\* the Calculations of the live history and of the mementos of the two stacks
HistoryValues == Values(heap, history)

UndoValues == StackValues(heap, undo_stack)

RedoValues == StackValues(heap, redo_stack)

\* the last call was a perform_operation that returned its result
Performed == last.call = "perform_operation" /\ last.outcome = "ok"

\* C1: a step of perform_operation that ends by raising an error leaves the
\* live history, the undo stack and the redo stack as they were before the call.
C1_FailedPerformChangesNothing ==
    [][(last'.call = "perform_operation" /\ last'.outcome # "ok")
        => /\ HistoryValues' = HistoryValues
           /\ UndoValues' = UndoValues
           /\ RedoValues' = RedoValues]_vars

\* C2: after a successful perform_operation, undo() returns true and leaves the
\* live history equal, entry for entry, to the history before the
\* perform_operation, whether or not the oldest entry was evicted.
C2_UndoRestoresHistory ==
    [][Performed'
        => LET res == UndoResult(history', undo_stack', redo_stack')
           IN  /\ res.ret = TRUE
               /\ Values(heap', res.s.history) = HistoryValues]_vars

\* a successful perform_operation on a full history has just evicted an entry
C2_Witness ==
    /\ Performed
    /\ Len(history) = config.max_history_size
    /\ Len(Top(undo_stack).history) = config.max_history_size

\* C3: after an undo() that returned true, redo() returns true and leaves the
\* live history and the content of the undo stack as they were before the undo.
C3_RedoRevertsUndo ==
    [][(last'.call = "undo" /\ last'.ret = TRUE)
        => LET res == RedoResult(history', undo_stack', redo_stack')
           IN  /\ res.ret = TRUE
               /\ Values(heap', res.s.history) = HistoryValues
               /\ StackValues(heap', res.s.undo_stack) = UndoValues]_vars

\* an undo has just returned true and restored a history that is not empty
C3_Witness ==
    /\ last.call = "undo"
    /\ last.ret = TRUE
    /\ history # <<>>
    /\ redo_stack # <<>>

\* C4: after a successful perform_operation the redo stack is empty, and a
\* redo() returns false and changes neither the history nor the stacks.
C4_PerformClearsRedo ==
    Performed
        => /\ redo_stack = <<>>
           /\ LET res == RedoResult(history, undo_stack, redo_stack)
              IN  /\ res.ret = FALSE
                  /\ res.s = Stacks(history, undo_stack, redo_stack)

\* a successful perform_operation with as many mementos as the model holds
C4_Witness ==
    /\ Performed
    /\ Len(undo_stack) = MaxStack
    /\ redo_stack = <<>>

\* C5: the live history never holds more than config.max_history_size entries.
C5_HistoryWithinCap == Len(history) <= config.max_history_size

\* C6: a successful perform_operation on a history of exactly
\* N = max_history_size entries leaves N entries: the former entries 2..N in
\* their order, then the new calculation.
C6_OldestEvicted ==
    [][(Performed' /\ Len(history) = config.max_history_size)
        => LET N == config.max_history_size
           IN  /\ Len(history') = N
               /\ SubSeq(HistoryValues', 1, N - 1) = SubSeq(HistoryValues, 2, N)
               /\ heap'[history'[N]].result = last'.ret
               /\ heap'[history'[N]].operation = OperationStr(operation_strategy')
       ]_vars

\* a perform_operation has evicted the older of two different entries
C6_Witness ==
    /\ Performed
    /\ config.max_history_size = 2
    /\ Len(history) = 2
    /\ Len(Top(undo_stack).history) = 2
    /\ heap[Top(undo_stack).history[1]] # heap[Top(undo_stack).history[2]]

\* C7: undo() on an empty undo stack returns false and leaves the history and
\* both stacks unchanged.
C7_UndoOnEmptyStack ==
    [][(last'.call = "undo" /\ undo_stack = <<>>)
        => /\ last'.ret = FALSE
           /\ HistoryValues' = HistoryValues
           /\ undo_stack' = <<>>
           /\ RedoValues' = RedoValues]_vars

\* undo() has just returned false with entries in the history
C7_Witness ==
    /\ last.call = "undo"
    /\ last.ret = FALSE
    /\ history # <<>>

\* C8: redo() on an empty redo stack returns false and leaves the history and
\* both stacks unchanged.
C8_RedoOnEmptyStack ==
    [][(last'.call = "redo" /\ redo_stack = <<>>)
        => /\ last'.ret = FALSE
           /\ HistoryValues' = HistoryValues
           /\ UndoValues' = UndoValues
           /\ redo_stack' = <<>>]_vars

\* redo() has just returned false with a memento on the undo stack
C8_Witness ==
    /\ last.call = "redo"
    /\ last.ret = FALSE
    /\ undo_stack # <<>>

\* C9: after clear_history the history and both stacks are empty, and undo()
\* and redo() both return false and leave the history empty.
C9_ClearEmptiesAll ==
    last.call = "clear_history"
        => /\ history = <<>>
           /\ undo_stack = <<>>
           /\ redo_stack = <<>>
           /\ LET res == UndoResult(history, undo_stack, redo_stack)
              IN  res.ret = FALSE /\ res.s.history = <<>>
           /\ LET res == RedoResult(history, undo_stack, redo_stack)
              IN  res.ret = FALSE /\ res.s.history = <<>>

\* the history has been cleared in a session that had saved calculations
C9_Witness ==
    /\ last.call = "clear_history"
    /\ history_file.exists
    /\ history_file.rows # <<>>

\* C10: assigning a field of a Calculation of the live history changes the
\* content of no memento of the undo stack or the redo stack.
C10_MementosOwnTheirState ==
    [][last'.call = "Calculation.result"
        => /\ UndoValues' = UndoValues
           /\ RedoValues' = RedoValues]_vars

----------------------------------------------------------------------------
(* Properties of perform_operation, the strategies and the Calculation record *)

\* C11: perform_operation with no strategy set raises the OperationError
\* "No operation set" whatever the operands are, notifies no observer and leaves
\* the history, the stacks and the history file as they were.
C11_NoOperationSet ==
    [][(last'.call = "perform_operation" /\ operation_strategy = NoStrategy)
        => /\ last'.outcome = "OperationError"
           /\ last'.msg = Message("No operation set")
           /\ last'.notified = <<>>
           /\ UNCHANGED <<heap, history, undo_stack, redo_stack, history_file>>
       ]_vars

\* perform_operation has raised for want of a strategy on a Calculator with a
\* loaded history and observers registered
C11_Witness ==
    /\ last.call = "perform_operation"
    /\ operation_strategy = NoStrategy
    /\ history # <<>>
    /\ Len(observers) = MaxObservers

\* the step is a call perform_operation(a, b) during which no save fails
PerformedWith(a, b) ==
    /\ last'.call = "perform_operation"
    /\ perform_operation(operation_strategy, a, b, 0)

\* C12: with any of the ten strategies set and operands that pass
\* validate_number and the strategy's validate_operands, perform_operation
\* returns the result of the strategy, pushes one memento and appends one
\* Calculation.
C12_ValidOperandsSucceed ==
    [][\A ab \in CalcOperandPairs :
          LET va == validate_number(ab[1], config)
              vb == validate_number(ab[2], config)
          IN  (/\ operation_strategy \in Strategies
               /\ va.err = "none"
               /\ vb.err = "none"
               /\ validate_operands(operation_strategy, va.val, vb.val) = ""
               /\ PerformedWith(ab[1], ab[2]))
              => /\ last'.outcome = "ok"
                 /\ last'.ret = execute(operation_strategy, va.val, vb.val).val
                 /\ Len(undo_stack') = Len(undo_stack) + 1
                 /\ heap'[history'[Len(history')]].operation
                      = OperationStr(operation_strategy)
                 /\ Len(history')
                      = Min(Len(history) + 1, config.max_history_size)
       ]_vars

\* C13: after every successful perform_operation, update() has been invoked
\* exactly once on each registered observer, in the order the observers were
\* added, each time with the Calculation that was just appended to the history;
\* the notification comes after the history was updated, so the file an
\* AutoSaveObserver writes holds the history with the new calculation in it.
C13_ObserversNotifiedInOrder ==
    Performed =>
        /\ history # <<>>
        /\ Len(last.notified) = Len(observers)
        /\ \A i \in 1..Len(observers) :
               last.notified[i] = Update(i, heap[history[Len(history)]])
        /\ (config.auto_save /\ \E i \in 1..Len(observers) :
                                    observers[i] = "AutoSaveObserver")
               => history_file = SavedFile(heap, history)

C13_Witness ==
    /\ Performed
    /\ Len(observers) = MaxObservers
    /\ observers[1] # observers[2]
    /\ config.auto_save
    /\ Len(history) = 2

Constructed == last.call = "Calculation"

Executed == last.call = "execute"

\* C14: a Calculation constructed with the operation name "IntDivide", the
\* name the integer-division strategy reports, and a non-zero second operand is
\* accepted, and its result is the integer quotient of the operands.
C14_IntDivideCalculationAccepted ==
    (Constructed /\ last.operation = "IntDivide" /\ ~IsZero(last.b))
        => /\ last.outcome = "ok"
           /\ last.ret = DecFloorDiv(last.a, last.b)

\* the strategies that divide by their second operand, and the texts of the
\* errors their validate_operands raise for a zero divisor
DividingStrategies == {"Division", "Modulus", "IntDivide", "Percent"}

DivisionByZeroMessages ==
    {"Division by zero is not allowed", "Modulus by zero is not allowed",
     "Divide by zero is not allowed"}

DivisionByZeroRaised ==
    last.outcome = "ValidationError" /\ last.msg \in DivisionByZeroMessages

\* C15: for every first operand a, execute(a, 0) of the Division, Modulus,
\* IntDivide and Percent strategies fails with a division-by-zero error and
\* returns no value; for every b # 0 it does not fail with that error.
C15_ZeroDivisorRefused ==
    (Executed /\ last.operation \in DividingStrategies)
        => IF IsZero(last.b)
           THEN DivisionByZeroRaised /\ last.ret = None
           ELSE ~DivisionByZeroRaised

C15_Witness ==
    /\ Executed
    /\ last.operation = "Percent"
    /\ IsNegative(last.a)
    /\ IsZero(last.b)
    /\ DivisionByZeroRaised

\* C16: constructing a Calculation whose operation is Division, Modulus,
\* Percent or integer division under the name "IntDivide", with second operand
\* 0, fails with OperationError "Division by zero is not allowed", whatever the
\* first operand.
C16_CalculationZeroDivisorMessage ==
    (Constructed /\ last.operation \in DividingStrategies /\ IsZero(last.b))
        => /\ last.outcome = "OperationError"
           /\ last.msg = "Division by zero is not allowed"

\* C17: Power fails exactly when the exponent is negative, and Root fails
\* exactly when the base is negative or the degree is zero, both in the
\* strategies' execute and in the construction of a Calculation named "Power"
\* or "Root".
C17_PowerRootFailExactly ==
    /\ ((Executed \/ Constructed) /\ last.operation = "Power")
           => (last.outcome # "ok" <=> IsNegative(last.b))
    /\ ((Executed \/ Constructed) /\ last.operation = "Root")
           => (last.outcome # "ok" <=> (IsNegative(last.a) \/ IsZero(last.b)))

\* C18: when a Root calculation is invalid on both counts, a negative first
\* operand and a zero second operand, constructing Calculation("Root", a, b)
\* reports "Zero root is undefined", not the negative-operand error.
C18_ZeroRootReportedFirst ==
    (Constructed /\ last.operation = "Root" /\ IsNegative(last.a) /\ IsZero(last.b))
        => /\ last.outcome = "OperationError"
           /\ last.msg = "Zero root is undefined"

C18_Witness ==
    /\ Constructed
    /\ last.operation = "Root"
    /\ IsNegative(last.a)
    /\ IsZero(last.b)
    /\ last.msg = "Zero root is undefined"

\* C19: the rule table of the Calculation record is a copy of the ten strategy
\* rules: for each operation and every operand pair, the strategy's
\* execute(a, b) and the construction of the Calculation under the operation's
\* display name both fail or both succeed, and on success give the same result.
C19_CalculationAgreesWithStrategy ==
    Executed =>
        LET c == Calculation(OperationStr(last.operation), last.a, last.b)
        IN  /\ (last.outcome = "ok") <=> (c.err = "none")
            /\ (last.outcome = "ok") => (last.ret = c.obj.result)

\* a parsed operand pair breaks the rule of the selected operation
DomainViolation(a, b) ==
    LET va == validate_number(a, config)
        vb == validate_number(b, config)
    IN  /\ va.err = "none"
        /\ vb.err = "none"
        /\ validate_operands(operation_strategy, va.val, vb.val) # ""

\* an operand does not parse or is larger than config.max_input_value
BadOperand(a, b) ==
    \/ validate_number(a, config).err # "none"
    \/ validate_number(b, config).err # "none"

\* C20 as stated: a domain violation of the selected operation reached through
\* perform_operation surfaces as an OperationError, and ValidationError is
\* raised only for unparseable or oversized operands.
C20_DomainViolationIsOperationError ==
    [][\A ab \in CalcOperandPairs :
          (operation_strategy \in Strategies /\ PerformedWith(ab[1], ab[2]))
              => /\ DomainViolation(ab[1], ab[2])
                    => last'.outcome = "OperationError"
                 /\ last'.outcome = "ValidationError"
                    => BadOperand(ab[1], ab[2])]_vars

\* C20 as the code has it: a domain violation that the validate_operands of the
\* selected operation refuses surfaces from perform_operation as the
\* ValidationError the strategy raised, with its message and with nothing
\* changed; perform_operation raises ValidationError exactly for an unparseable
\* or oversized operand and for such a domain violation, and OperationError for
\* every other failure.
C20_DomainViolationIsValidationError ==
    [][\A ab \in CalcOperandPairs :
          (operation_strategy \in Strategies /\ PerformedWith(ab[1], ab[2]))
              => /\ DomainViolation(ab[1], ab[2])
                    => /\ last'.outcome = "ValidationError"
                       /\ last'.msg =
                            Message(validate_operands(
                                operation_strategy,
                                validate_number(ab[1], config).val,
                                validate_number(ab[2], config).val))
                       /\ UNCHANGED <<heap, history, undo_stack, redo_stack>>
                 /\ last'.outcome = "ValidationError"
                    <=> (BadOperand(ab[1], ab[2]) \/ DomainViolation(ab[1], ab[2]))
                 /\ last'.outcome \in {"ok", "ValidationError", "OperationError"}]_vars

C20_Witness ==
    /\ last.call = "perform_operation"
    /\ last.outcome = "ValidationError"
    /\ last.msg = Message("Cannot calculate root of negative number")
    /\ history # <<>>

----------------------------------------------------------------------------
(* The conversions of the Calculation record called on their own: to_dict on a
   Calculation that was constructed, and from_dict on the dict it gave or on
   that dict with another text as its stored result. *)

\* operands as validate_number returns them: -1, 0, 2 and 1E+1
DictOperands == {DecInt(-1), DecInt(0), DecInt(2), Dec(0, 1, 1)}

Timestamps ==
    {[second |-> 12, microsecond |-> 0], [second |-> 12, microsecond |-> 5],
     [second |-> 0, microsecond |-> 500000]}

\* texts put in place of the stored result: numbers and a text that is none
EditedResults == {DecStr(DecInt(5)), DecStr(Dec(1, 25, -1)), <<"a", "b", "c">>}

DictCall(name, arg, r, ret) ==
    [call |-> name, arg |-> arg, outcome |-> IF r.err = "none" THEN "ok" ELSE r.err,
     msg |-> r.msg, warned |-> r.warned, ret |-> ret, notified |-> <<>>]

\* calc.to_dict() on a Calculation constructed at time t
ToDict ==
    \E name \in CalculationNames, a \in DictOperands, b \in DictOperands,
       t \in Timestamps :
        /\ Representable(name, a, b)
        /\ name = "Power" => b \in Operands
        /\ Calculation(name, a, b).err = "none"
        /\ LET calc == Stamped(Calculation(name, a, b).obj, t)
           IN  last' = DictCall("to_dict", calc,
                                [err |-> "none", msg |-> "", warned |-> FALSE],
                                to_dict(calc))
        /\ UNCHANGED <<operations, config, heap, history, undo_stack, redo_stack,
                       operation_strategy, observers, history_file>>

\* Calculation.from_dict(data) on the dict to_dict has just returned, as it is
\* or with its stored result edited
FromDict ==
    /\ last.call = "to_dict"
    /\ \E data \in {last.ret}
                     \cup {[last.ret EXCEPT !.result = text] : text \in EditedResults} :
          LET r == Calculation_from_dict(data)
          IN  last' = DictCall("from_dict", data, r, r.obj)
    /\ UNCHANGED <<operations, config, heap, history, undo_stack, redo_stack,
                   operation_strategy, observers, history_file>>

NextDict ==
    \/ ToDict
    \/ FromDict

SpecDict == InitOps /\ [][NextDict]_vars

----------------------------------------------------------------------------
(* Properties of the arithmetic rules, the operation factory, the Calculation
   record's conversions and the observers *)

\* the greatest integer not exceeding n / d, for d # 0
Floor(n, d) == IF d > 0 THEN n \div d ELSE (-n) \div (-d)

\* C21: for all integers a and all integers b # 0, negative ones included, the
\* integer-division operation returns floor(a / b), the greatest integer not
\* exceeding the exact quotient; in the IntDivide strategy and in the rule of
\* the Calculation record alike.
C21_IntDivideIsFloor ==
    (/\ \/ Executed /\ last.operation = "IntDivide"
        \/ Constructed /\ last.operation = "IntegerDivison"
     /\ ~IsZero(last.b))
        => /\ last.outcome = "ok"
           /\ last.ret.e = 0
           /\ IntVal(last.ret) = Floor(IntVal(last.a), IntVal(last.b))

\* C22: AbsoluteDifference is commutative and non-negative: for all operands a
\* and b, execute(a, b) equals execute(b, a), is >= 0, and never fails.
C22_AbsoluteDifferenceCommutes ==
    (Executed /\ last.operation = "AbsoluteDifference")
        => /\ last.outcome = "ok"
           /\ last.ret.s = 0
           /\ LET swapped == execute("AbsoluteDifference", last.b, last.a)
              IN  swapped.err = "none" /\ swapped.val = last.ret

C22_Witness ==
    /\ Executed
    /\ last.operation = "AbsoluteDifference"
    /\ last.outcome = "ok"
    /\ IsNegative(DecSub(last.a, last.b))
    /\ IsNegative(last.b)

\* C23: register_operation(name, cls) binds the lower-cased name to cls,
\* overwriting any binding that differs only in letter case and leaving the
\* other bindings alone, so that create_operation under any casing of the name
\* returns an instance of the class registered last; registering a class that
\* is not an Operation fails with TypeError and leaves the registry unchanged.
C23_RegisterBindsLowerCasedName ==
    [][/\ (last'.call = "register_operation" /\ IsOperationClass(last'.cls))
            => /\ last'.outcome = "ok"
               /\ \A n \in FactoryNames :
                     lower(n) = lower(last'.name)
                         => Get(operations', lower(n)) = last'.cls
               /\ \A i, j \in 1..Len(operations') :
                     lower(operations'[i].name) = lower(operations'[j].name)
                         => i = j
               /\ \A i \in 1..Len(operations) :
                     operations[i].name # lower(last'.name)
                         => Get(operations', operations[i].name) = operations[i].cls
       /\ (last'.call = "register_operation" /\ ~IsOperationClass(last'.cls))
            => /\ last'.outcome = "TypeError"
               /\ operations' = operations
       /\ (last'.call = "create_operation"
              /\ Get(operations, lower(last'.name)) # NoClass)
            => /\ last'.outcome = "ok"
               /\ last'.ret = Get(operations, lower(last'.name))
               /\ operations' = operations]_vars

C23_Witness ==
    /\ last.call = "create_operation"
    /\ last.name = "ADD"
    /\ last.ret = "Cube"
    /\ Get(operations, "cube") = "Square"

\* app/exceptions.py: CalculatorError and the classes that inherit from it
CalculatorErrors ==
    {"CalculatorError", "ValidationError", "OperationError", "ConfigurationError"}

\* C24: create_operation(name) for a name that is not registered, compared
\* without regard to case, fails with the unknown-operation error of the
\* engine's own error family, returns no instance and leaves the registry
\* unchanged.
C24_UnknownOperationError ==
    [][(last'.call = "create_operation"
           /\ Get(operations, lower(last'.name)) = NoClass)
          => /\ last'.outcome \in CalculatorErrors
             /\ last'.msg = "Unknown operation"
             /\ last'.ret = None
             /\ operations' = operations]_vars

\* C25: after any sequence of register_operation calls, get_operations()
\* returns every registered name exactly once, in order of first registration:
\* the ten built-in names first, in the order of the dict literal, then the new
\* names in the order they were first registered; registering a name again
\* neither moves nor duplicates it.
C25_NamesInRegistrationOrder ==
    [][/\ (last'.call = "register_operation" /\ last'.outcome = "ok")
            => Keys(operations') =
                  IF lower(last'.name) \in Range(Keys(operations))
                  THEN Keys(operations)
                  ELSE Append(Keys(operations), lower(last'.name))
       /\ last'.call = "get_operations"
            => /\ last'.ret = Keys(operations')
               /\ operations' = operations
               /\ SubSeq(last'.ret, 1, 10) =
                     <<"add", "subtract", "multiply", "divide", "power", "root",
                       "modulus", "int_divide", "percent", "abs_diff">>
               /\ \A i, j \in 1..Len(last'.ret) :
                     last'.ret[i] = last'.ret[j] => i = j]_vars

C25_Witness ==
    /\ last.call = "get_operations"
    /\ Len(last.ret) = 12
    /\ last.ret[11] = "square"
    /\ Get(operations, "add") = "Square"
    /\ Get(operations, "square") = "Cube"

\* C26: from_dict always takes the result from recomputation: for a mapping
\* whose stored result is a number that differs from the value computed from
\* its operation and operands, from_dict does not fail, logs a warning, and
\* returns a Calculation whose result is the computed value; the stored value
\* is discarded.
C26_FromDictRecomputes ==
    [][(/\ last.call = "to_dict"
        /\ last'.call = "from_dict"
        /\ DecParse(last'.arg.result).ok
        /\ ~DecEq(DecParse(last'.arg.result).d, last.arg.result))
          => /\ last'.outcome = "ok"
             /\ last'.warned
             /\ last'.ret.result = last.arg.result
             /\ ~DecEq(last'.ret.result, DecParse(last'.arg.result).d)]_vars

C26_Witness ==
    /\ last.call = "from_dict"
    /\ last.outcome = "ok"
    /\ last.warned
    /\ last.arg.result = DecStr(Dec(1, 25, -1))
    /\ last.ret.operation = "Division"
    /\ last.ret.result = Dec(1, 5, -1)

\* C27: for every Calculation c that can be constructed, from_dict(c.to_dict())
\* succeeds and yields a Calculation with the same operation, first operand,
\* second operand, result and timestamp as c.
C27_DictRoundTrip ==
    [][(/\ last.call = "to_dict"
        /\ last'.call = "from_dict"
        /\ last'.arg = last.ret)
          => /\ last'.outcome = "ok"
             /\ ~last'.warned
             /\ last'.ret = last.arg]_vars

C27_Witness ==
    /\ last.call = "from_dict"
    /\ last.outcome = "ok"
    /\ ~last.warned
    /\ last.ret.operation = "Percent"
    /\ last.ret.first_operand = DecInt(-1)
    /\ last.ret.second_operand = Dec(0, 1, 1)
    /\ last.ret.timestamp.microsecond = 5

\* C28: format_result(precision) fails with the invalid-format error
\* "Invalid precision value" whenever precision is negative or is not an
\* integer, and returns no formatted string in those cases.
C28_InvalidPrecisionRefused ==
    (last.call = "format_result"
        /\ (~last.precision.int \/ last.precision.n < 0))
        => /\ last.outcome = "InvalidOperation"
           /\ last.msg = "Invalid precision value"
           /\ last.ret = None

\* C29: both built-in observers reject a null calculation: update(None) of the
\* LoggingObserver and of the AutoSaveObserver raises AttributeError, and the
\* AutoSaveObserver does so before it calls save_history, also when auto_save
\* is enabled.
C29_ObserversRejectNone ==
    [][(last'.call = "update" /\ last'.calculation = NoCalculation)
          => /\ last'.outcome = "AttributeError"
             /\ last'.saves = 0
             /\ history_file' = history_file]_vars

C29_Witness ==
    /\ last.call = "update"
    /\ last.calculation = NoCalculation
    /\ last.observer = "AutoSaveObserver"
    /\ last.outcome = "AttributeError"
    /\ config.auto_save
    /\ history # <<>>

\* C30: AutoSaveObserver.update(calculation) with a calculation that is not
\* None calls the calculator's save_history exactly once when config.auto_save
\* is true, and not at all when it is false.
C30_AutoSaveFollowsConfig ==
    [][(/\ last'.call = "update"
        /\ last'.observer = "AutoSaveObserver"
        /\ last'.calculation # NoCalculation)
          => /\ last'.saves = IF config.auto_save THEN 1 ELSE 0
             /\ ~config.auto_save
                  => last'.outcome = "ok" /\ history_file' = history_file
             /\ (config.auto_save /\ last'.outcome = "ok")
                  => history_file' = SavedFile(heap, history)]_vars

C30_Witness ==
    /\ last.call = "update"
    /\ last.observer = "AutoSaveObserver"
    /\ last.calculation # NoCalculation
    /\ last.saves = 1
    /\ last.outcome = "ok"
    /\ history_file = SavedFile(heap, history)

----------------------------------------------------------------------------
(* Properties of input validation, configuration, the REPL prompts, and of
   undo, redo and load_history over longer runs *)

\* the operand is not the text of a decimal, or its magnitude is strictly
\* greater than config.max_input_value
Oversized(value) ==
    value.parses /\ Abs(IntVal(value.d)) > config.max_input_value

RejectionMessages ==
    {Message("Invalid number format"), Message("Value exceeds maximum allowed")}

\* C31: perform_operation rejects an operand exactly when it cannot be parsed
\* as a decimal or its absolute value is strictly greater than
\* config.max_input_value (a magnitude equal to the maximum is accepted); the
\* rejection is the validator's ValidationError, raised before the strategy is
\* executed, with history and both stacks unchanged.
C31_OperandRejectedExactlyWhenInvalid ==
    [][\A ab \in CalcOperandPairs :
          (operation_strategy \in Strategies /\ PerformedWith(ab[1], ab[2]))
              => LET rejected == \E v \in {ab[1], ab[2]} :
                                     ~v.parses \/ Oversized(v)
                     refused == /\ last'.outcome = "ValidationError"
                                /\ last'.msg \in RejectionMessages
                 IN  /\ rejected <=> refused
                     /\ rejected
                          => /\ last'.notified = <<>>
                             /\ UNCHANGED <<heap, history, undo_stack,
                                            redo_stack, history_file>>]_vars

C31_Witness ==
    /\ last.call = "perform_operation"
    /\ last.outcome = "ValidationError"
    /\ last.msg = Message("Value exceeds maximum allowed")
    /\ operation_strategy = "Division"
    /\ history # <<>>

----------------------------------------------------------------------------
(* CalculatorConfig and the validation of a configuration by Calculator *)

\* an optional constructor argument: given, or left at None
Some(v) == [given |-> TRUE, v |-> v]

Default == [given |-> FALSE]

\* int(text) for the text of an integer
ParseInt(text) ==
    IF text # <<>> /\ text[1] = "-" THEN -Num(Tail(text)) ELSE Num(text)

\* the process environments explored: nothing set, a zero history size, and
\* a history size with a negative input bound and auto-save switched off
Environments ==
    {[CALCULATOR_BASE_DIR |-> "."],
     [CALCULATOR_MAX_HISTORY_SIZE |-> <<"0">>],
     [CALCULATOR_MAX_HISTORY_SIZE |-> <<"2">>,
      CALCULATOR_MAX_INPUT_VALUE |-> <<"-", "1">>,
      CALCULATOR_AUTO_SAVE |-> "false"]}

\* os.getenv(name, default)
getenv(env, name, default) ==
    IF name \in DOMAIN env THEN env[name] ELSE default

\* CalculatorConfig.__init__ lines 48-63: "argument or environment" takes the
\* environment (or the built-in default) for None and for every falsy
\* argument, 0 and Decimal(0) included; auto_save takes it for None only
CalculatorConfig(env, max_history_size, auto_save, precision, max_input_value) ==
    [max_history_size |->
         IF max_history_size.given /\ max_history_size.v # 0
         THEN max_history_size.v
         ELSE ParseInt(getenv(env, "CALCULATOR_MAX_HISTORY_SIZE",
                              <<"1", "0", "0", "0">>)),
     auto_save |->
         IF auto_save.given THEN auto_save.v
         ELSE LET auto_save_env ==
                      lower(getenv(env, "CALCULATOR_AUTO_SAVE", "true"))
              IN  auto_save_env = "true" \/ auto_save_env = "1",
     precision |->
         IF precision.given /\ precision.v # 0
         THEN precision.v
         ELSE ParseInt(getenv(env, "CALCULATOR_PRECISION", <<"1", "0">>)),
     max_input_value |->
         IF max_input_value.given /\ ~IsZero(max_input_value.v)
         THEN max_input_value.v
         ELSE DecParse(getenv(env, "CALCULATOR_MAX_INPUT_VALUE",
                              <<"1", "e", "9", "9", "9">>)).d]

\* CalculatorConfig.validate: the first non-positive value is reported
validate(cfg) ==
    IF cfg.max_history_size <= 0
    THEN Raise("ConfigurationError", "max_history_size must be positive")
    ELSE IF cfg.precision <= 0
    THEN Raise("ConfigurationError", "precision must be positive")
    ELSE IF IsNegative(cfg.max_input_value) \/ IsZero(cfg.max_input_value)
    THEN Raise("ConfigurationError", "max_input_value must be positive")
    ELSE Ok(Dec(0, 0, 0))

\* the arguments configurations are built with
HistorySizeArguments == {Default, Some(-1), Some(0), Some(1)}

AutoSaveArguments == {Default, Some(TRUE), Some(FALSE)}

PrecisionArguments == {Default, Some(-1)}

InputValueArguments ==
    {Default, Some(DecInt(-1)), Some(DecInt(0)), Some(DecInt(1))}

\* Calculator() with nothing set in the environment and no history file; the
\* bound of this configuration is the Decimal the constructor stores
InitConfig ==
    /\ config = CalculatorConfig([CALCULATOR_BASE_DIR |-> "."],
                                 Default, Default, Default, Default)
    /\ heap = <<>>
    /\ history = <<>>
    /\ undo_stack = <<>>
    /\ redo_stack = <<>>
    /\ operation_strategy = NoStrategy
    /\ observers = <<>>
    /\ history_file = NoFile
    /\ operations = BuiltinOperations
    /\ last = Call("__init__", "ok", None, <<>>)

\* CalculatorConfig(...): a configuration is built, no Calculator is touched
Configure ==
    \E env \in Environments, max_history_size \in HistorySizeArguments,
       auto_save \in AutoSaveArguments, precision \in PrecisionArguments,
       max_input_value \in InputValueArguments :
        /\ last' = [call |-> "CalculatorConfig", outcome |-> "ok",
                    ret |-> CalculatorConfig(env, max_history_size, auto_save,
                                             precision, max_input_value),
                    notified |-> <<>>,
                    max_history_size |-> max_history_size,
                    max_input_value |-> max_input_value]
        /\ UNCHANGED <<config, heap, history, undo_stack, redo_stack,
                       operation_strategy, observers, history_file,
                       operations>>

\* Calculator(config) lines 36-55: validate raises before anything is set up,
\* and the Calculator in use stays the one built before
NewCalculator ==
    /\ last.call = "CalculatorConfig"
    /\ LET v == validate(last.ret)
       IN  IF v.err # "none"
           THEN /\ last' = Raised("__init__", v.err, Message(v.msg), <<>>)
                /\ UNCHANGED <<config, heap, history, undo_stack, redo_stack,
                               operation_strategy, observers, history_file,
                               operations>>
           ELSE /\ Calculator_init(last.ret)
                /\ observers' = <<>>
                /\ UNCHANGED operations

NextConfig == Configure \/ NewCalculator

SpecConfig == InitConfig /\ [][NextConfig]_vars

\* the argument was given and is zero or negative
NonPositiveSize(arg) == arg.given /\ arg.v <= 0

NonPositiveValue(arg) == arg.given /\ (IsNegative(arg.v) \/ IsZero(arg.v))

\* C32: constructing a Calculator from a configuration built with a
\* non-positive max_history_size or max_input_value, zero as well as negative,
\* fails with ConfigurationError.
C32_NonPositiveConfigurationRefused ==
    [][(/\ last.call = "CalculatorConfig"
        /\ \/ NonPositiveSize(last.max_history_size)
           \/ NonPositiveValue(last.max_input_value)
        /\ last'.call = "__init__")
           => last'.outcome = "ConfigurationError"]_vars

\* the step is the operation command answered with a and b at the two prompts
\* and did not end in a result
AnsweredWith(command, a, b) ==
    /\ last'.call = "cancel" \/ last'.outcome # "ok"
    /\ ReplOperation(command, a, b, 0)

\* C33: in the REPL, the word cancel (in any letter case) at the first or at
\* the second operand prompt of an operation command aborts the command: no
\* strategy is created, set or executed, history, undo stack and redo stack
\* (and the history file) stay unchanged, and the loop reads the next command.
C33_CancelAbortsCommand ==
    [][\A command \in DrivenStrategies, ab \in CancelPairs :
          AnsweredWith(command, ab[1], ab[2])
              => /\ last'.call = "cancel"
                 /\ Running'
                 /\ UNCHANGED <<heap, history, undo_stack, redo_stack,
                                operation_strategy, history_file, observers,
                                config, operations>>]_vars

C33_Witness ==
    /\ last.call = "cancel"
    /\ operation_strategy = "Division"
    /\ history # <<>>
    /\ undo_stack # <<>>

----------------------------------------------------------------------------
(* A run of n operations, n + 1 calls of undo and n calls of redo on a
   Calculator whose stacks are empty at the start *)

\* the longest run of operations explored
MaxOperations == 3

\* the history files the Calculator is started on: none, one entry, two entries
StartFiles ==
    {NoFile,
     SavedFile(<<Calculation("Addition", DecInt(0), DecInt(1)).obj>>, <<1>>),
     SavedFile(<<Calculation("Addition", DecInt(0), DecInt(1)).obj,
                 Calculation("Division", DecInt(0), DecInt(1)).obj>>,
               <<1, 2>>)}

\* the strategy set before the run
RunStrategies == {"Addition", "Division"}

\* the operands of the i-th operation of the run
RunOperands(i) == <<Parsed(DecInt(i)), Parsed(DecInt(1))>>

\* a Calculator constructed on one of the files, with a strategy set and no
\* observer
InitRun ==
    /\ config \in [max_history_size : Caps, auto_save : BOOLEAN,
                   max_input_value : {MaxOperations}]
    /\ history_file \in StartFiles
    /\ LET loaded == LoadInto(<<>>, <<>>, history_file)
       IN  /\ heap = loaded.heap
           /\ history = loaded.history
    /\ undo_stack = <<>>
    /\ redo_stack = <<>>
    /\ operation_strategy \in RunStrategies
    /\ observers = <<>>
    /\ operations = BuiltinOperations
    /\ last = Call("__init__", "ok", None, <<>>)

\* the next operation of the run
RunPerform ==
    /\ last.call \in {"__init__", "perform_operation"}
    /\ Len(undo_stack) < MaxOperations
    /\ LET ab == RunOperands(Len(undo_stack) + 1)
       IN  perform_operation(operation_strategy, ab[1], ab[2], 0)
    /\ UNCHANGED <<operations, config, operation_strategy, observers>>

\* undo() after the operations, called until it has returned False
RunUndo ==
    /\ IF last.call = "undo" THEN last.ret
       ELSE last.call \in {"__init__", "perform_operation"}
    /\ undo
    /\ UNCHANGED <<operations, config, operation_strategy, observers,
                   history_file>>

\* redo() after the last undo, called once for every snapshot on the redo stack
RunRedo ==
    /\ IF last.call = "undo" THEN ~last.ret ELSE last.call = "redo"
    /\ redo_stack # <<>>
    /\ redo
    /\ UNCHANGED <<operations, config, operation_strategy, observers,
                   history_file>>

NextRun == RunPerform \/ RunUndo \/ RunRedo

SpecRun == InitRun /\ [][NextRun]_vars

\* the history the Calculator started with: the entries of the file
StartValues == LoadedObjects(history_file.rows)

\* the number of operations performed: the first operand of the newest
\* Calculation (the entries of the files have the first operand 0)
RECURSIVE NewestOperand(_)
NewestOperand(objects) ==
    IF objects = <<>> THEN 0
    ELSE LET n == IntVal(Head(objects).first_operand)
             m == NewestOperand(Tail(objects))
         IN  IF n > m THEN n ELSE m

Operations == NewestOperand(heap)

\* the history after the k-th operation of the run, by lines 152-155
RECURSIVE HistoryAfter(_)
HistoryAfter(k) ==
    IF k = 0 THEN StartValues
    ELSE LET appended ==
                 Append(HistoryAfter(k - 1),
                        Calculation(OperationStr(operation_strategy),
                                    DecInt(k), DecInt(1)).obj)
         IN  IF Len(appended) > config.max_history_size
             THEN Tail(appended) ELSE appended

\* C34: from a Calculator whose stacks are empty, after n successful
\* operations (n also beyond max_history_size) exactly n consecutive undo()
\* calls return true and the (n+1)-th returns false; the live history then
\* equals the history the Calculator started with, entries evicted by the cap
\* included; n calls of redo() then restore the history as it was after the
\* n-th operation.
C34_UndoAllThenRedoAll ==
    /\ last.call = "perform_operation"
           => /\ last.outcome = "ok"
              /\ Len(undo_stack) = Operations
              /\ HistoryValues = HistoryAfter(Operations)
    /\ last.call = "undo"
           => IF last.ret
              THEN Len(redo_stack) \in 1..Operations
              ELSE /\ Len(redo_stack) = Operations
                   /\ undo_stack = <<>>
                   /\ HistoryValues = StartValues
    /\ (last.call = "redo" /\ redo_stack = <<>>)
           => /\ last.ret
              /\ Len(undo_stack) = Operations
              /\ HistoryValues = HistoryAfter(Operations)

C34_Witness ==
    /\ last.call = "redo"
    /\ redo_stack = <<>>
    /\ Len(undo_stack) > config.max_history_size
    /\ Len(StartValues) > config.max_history_size
    /\ HistoryValues = HistoryAfter(Len(undo_stack))

----------------------------------------------------------------------------
(* Properties of the stack lengths, of load_history, of the value returned by
   perform_operation and of the notifications *)

\* C35: a successful undo() makes the undo stack one shorter and the redo
\* stack one longer, a successful redo() does the reverse, an undo() or redo()
\* that returns False changes neither, so the sum of the two lengths is
\* unchanged by undo and redo; a successful perform_operation makes the undo
\* stack exactly one longer and the redo stack empty.
C35_StackLengths ==
    [][/\ last'.call = "undo"
            => /\ Len(undo_stack') + Len(redo_stack')
                      = Len(undo_stack) + Len(redo_stack)
               /\ Len(undo_stack')
                      = Len(undo_stack) - (IF last'.ret THEN 1 ELSE 0)
       /\ last'.call = "redo"
            => /\ Len(undo_stack') + Len(redo_stack')
                      = Len(undo_stack) + Len(redo_stack)
               /\ Len(redo_stack')
                      = Len(redo_stack) - (IF last'.ret THEN 1 ELSE 0)
       /\ Performed'
            => /\ Len(undo_stack') = Len(undo_stack) + 1
               /\ Len(redo_stack') = 0]_vars

C35_Witness ==
    /\ last.call = "redo"
    /\ last.ret
    /\ Len(undo_stack) = 1
    /\ redo_stack = <<>>
    /\ history # <<>>

\* load_history has returned
Loaded == last.call = "load_history" /\ last.outcome = "ok"

\* the entries persisted in the history file
PersistedValues == LoadedObjects(history_file.rows)

\* load_history leaves the snapshots of both stacks as they are
StacksKept ==
    /\ StackValues(heap', undo_stack') = StackValues(heap, undo_stack)
    /\ StackValues(heap', redo_stack') = StackValues(heap, redo_stack)

\* C36 as stated: load_history() replaces the live history with the persisted
\* entries and leaves the undo stack and the redo stack unchanged.
C36_LoadReplacesHistory ==
    [][Loaded' => /\ Values(heap', history') = PersistedValues
                  /\ StacksKept]_<<last.call, heap, history, undo_stack,
                                   redo_stack>>

\* C36, amended: load_history() replaces the live history with the persisted
\* entries when the file holds at least one entry, leaves the live history as
\* it is when the file is missing or holds no entry, and in both cases leaves
\* the undo stack and the redo stack unchanged; an undo() or redo() issued
\* after a load replaces the history with the snapshot on top of that stack,
\* taken before the load.
C36_LoadKeepsStacks ==
    [][/\ Loaded'
           => /\ Values(heap', history')
                     = IF PersistedValues # <<>> THEN PersistedValues
                       ELSE HistoryValues
              /\ StacksKept
       /\ (Loaded /\ last'.call = "undo" /\ undo_stack # <<>>)
           => Values(heap', history') = Values(heap, Top(undo_stack).history)
       /\ (Loaded /\ last'.call = "redo" /\ redo_stack # <<>>)
           => Values(heap', history') = Values(heap, Top(redo_stack).history)]_vars

C36_Witness ==
    /\ Loaded
    /\ undo_stack # <<>>
    /\ PersistedValues # <<>>
    /\ HistoryValues = PersistedValues
    /\ HistoryValues # Values(heap, Top(undo_stack).history)

\* C37: on every successful perform_operation the value returned equals the
\* result field of the Calculation the call appended as the last history
\* entry; the operands of that entry are the validated operands and its
\* operation is the name of the active strategy.
C37_ReturnedValueIsRecorded ==
    [][\A ab \in CalcOperandPairs :
          (Performed' /\ PerformedWith(ab[1], ab[2]))
              => /\ history' # <<>>
                 /\ LET entry == heap'[history'[Len(history')]]
                    IN  /\ entry.result = last'.ret
                        /\ entry.first_operand
                               = validate_number(ab[1], config).val
                        /\ entry.second_operand
                               = validate_number(ab[2], config).val
                        /\ entry.operation = OperationStr(operation_strategy)
                        /\ entry \notin Range(HistoryValues)
                               => Len(SelectSeq(Values(heap', history'),
                                                LAMBDA c : c = entry)) = 1]_vars

C37_Witness ==
    /\ Performed
    /\ history # <<>>
    /\ IsNegative(last.ret)
    /\ heap[history[Len(history)]].result = last.ret
    /\ heap[history[Len(history)]].operation = OperationStr(operation_strategy)

\* the methods that are not perform_operation notify nobody and leave the
\* history file to the explicit save; a perform_operation that changed nothing
\* (its strategy was set, its operands were refused) notified nobody either
OthersNotifyNobody ==
    /\ last'.call # "perform_operation" => last'.notified = <<>>
    /\ last'.call \in {"undo", "redo", "clear_history", "load_history"}
           => history_file' = history_file
    /\ (last'.call = "perform_operation"
            /\ UNCHANGED <<heap, history, undo_stack>>)
           => /\ last'.notified = <<>>
              /\ history_file' = history_file

AutoSaveRegistered == "AutoSaveObserver" \in Range(observers)

\* C38 as stated: only a successful perform_operation notifies, and with the
\* autosave observer registered the persisted history equals the live history
\* directly after each successful operation.
C38_PersistedAfterEveryOperation ==
    [][/\ OthersNotifyNobody
       /\ (Performed' /\ AutoSaveRegistered)
           => history_file' = SavedFile(heap', history')]_<<last.call, heap,
                                                            history, undo_stack,
                                                            redo_stack>>

\* C38, amended: undo(), redo(), clear_history(), load_history() and
\* set_operation() never invoke an observer's update and never rewrite the
\* history file; with the autosave observer registered and config.auto_save
\* set, the persisted history equals the live history directly after each
\* successful operation; with auto_save not set the observer writes nothing.
C38_PersistedWhenAutoSaveSet ==
    [][/\ OthersNotifyNobody
       /\ (Performed' /\ AutoSaveRegistered /\ config.auto_save)
           => history_file' = SavedFile(heap', history')
       /\ (Performed' /\ ~config.auto_save)
           => history_file' = history_file]_vars

C38_Witness ==
    /\ last.call = "undo"
    /\ last.ret
    /\ AutoSaveRegistered
    /\ config.auto_save
    /\ history_file.exists
    /\ history_file # SavedFile(heap, history)
    /\ redo_stack # <<>>
    /\ history_file = SavedFile(heap, Top(redo_stack).history)

====
